---- MODULE Spec2Model ----
(***************************************************************************)
(* NoiseGuard audio core: the SPSC ring buffer, the AudioEngine lifecycle  *)
(* (start / stop / auto-restart) and the threads that share the engine:    *)
(* the control thread, the PortAudio capture and output callbacks and the  *)
(* processing thread.                                                      *)
(*                                                                         *)
(* Three specifications share this module.                                  *)
(*   Spec      the AudioEngine of audio.cpp with its four threads; a ring  *)
(*             operation is one step, taken where it publishes its index.  *)
(*   SpecRing  one RingBuffer with its producer and its consumer, every    *)
(*             ring operation split into the three steps the index         *)
(*             protocol gives it (observe, copy, publish).                 *)
(*   FairSpec  Spec with the fairness the scheduler gives the threads.     *)
(*                                                                         *)
(* Sizes are scaled down: a frame is kRNNoiseFrameSize samples and a ring  *)
(* is requested with kRingCapacity slots, both far smaller than the 480    *)
(* and 4096 of the build; as there, a ring holds more than one frame.      *)
(***************************************************************************)
EXTENDS Integers, Sequences, FiniteSets, TLC

(* ------------------------------ bounds -------------------------------- *)

\* rnnoise_wrapper.h: kRNNoiseFrameSize = 480, scaled down.
kRNNoiseFrameSize == 3

\* audio.cpp: kRingCapacity = 4096, scaled down; the ring rounds it up to 4.
kRingCapacity == 3

\* Capture buffers the backend delivers to a running engine between a start
\* and the following stop.
MaxCaptureBuffers == 2

\* SpecRing: samples the producer offers in all, and the largest request.
MaxOffered == 6
MaxRequest == 3

(* ------------------------- program constants -------------------------- *)

kMaxRestartAttempts == 5

NULL == "null"

Min(a, b) == IF a <= b THEN a ELSE b

(* ----------------------------- RingBuffer ----------------------------- *)
(* ringbuffer.h is not among the sources; the ring follows the contract    *)
(* of the specification (sections 3 and 4.1) and the calls audio.cpp makes. *)

RECURSIVE NextPow2From(_, _)
NextPow2From(p, n) == IF p >= n THEN p ELSE NextPow2From(2 * p, n)

\* Capacity is rounded up to a power of two at construction.
NextPow2(n) == NextPow2From(1, n)

RingBuffer(capacity) ==
    [ capacity |-> NextPow2(capacity),
      buf      |-> [i \in 0 .. NextPow2(capacity) - 1 |-> 0],
      readIdx  |-> 0,
      writeIdx |-> 0 ]

\* An empty std::unique_ptr<RingBuffer>.
NoRing == [ capacity |-> 0, buf |-> [i \in {} |-> 0], readIdx |-> 0, writeIdx |-> 0 ]

\* index & (N - 1)
Mask(rb, i) == i % rb.capacity

available_read(rb) == rb.writeIdx - rb.readIdx

available_write(rb) == rb.capacity - available_read(rb)

\* WriteCount without the clamp to the free space.
WriteCount_Unclamped(rb, n) == n

\* write, step 1: own index, acquire-load of the read index, clamp the count.
WriteCount(rb, n) == Min(n, available_write(rb))

\* WriteCopy starting one slot late.
WriteCopy_OffByOne(rb, src, count) ==
    [ rb EXCEPT !.buf =
        [ i \in DOMAIN rb.buf |->
            IF \E k \in 0 .. count - 1 : Mask(rb, rb.writeIdx + k + 1) = i
            THEN src[1 + CHOOSE k \in 0 .. count - 1 : Mask(rb, rb.writeIdx + k + 1) = i]
            ELSE rb.buf[i] ] ]

\* write, step 2: copy count samples of src behind the write index.
WriteCopy(rb, src, count) ==
    [ rb EXCEPT !.buf =
        [ i \in DOMAIN rb.buf |->
            IF \E k \in 0 .. count - 1 : Mask(rb, rb.writeIdx + k) = i
            THEN src[1 + CHOOSE k \in 0 .. count - 1 : Mask(rb, rb.writeIdx + k) = i]
            ELSE rb.buf[i] ] ]

\* write, step 3: release-store of the write index.
WritePublish(rb, count) == [ rb EXCEPT !.writeIdx = @ + count ]

\* ReadCount without the clamp to what is readable.
ReadCount_Unclamped(rb, n) == n

\* read, step 1: own index, acquire-load of the write index, clamp the count.
ReadCount(rb, n) == Min(n, available_read(rb))

\* read, step 2: copy count samples from the read index on.
ReadCopy(rb, count) == [ k \in 1 .. count |-> rb.buf[Mask(rb, rb.readIdx + k - 1)] ]

\* read, step 3: release-store of the read index.
ReadPublish(rb, count) == [ rb EXCEPT !.readIdx = @ + count ]

\* write(src, n) -> n_written, as one step.
RingBuffer_write(rb, src) ==
    LET count == WriteCount(rb, Len(src))
    IN  [ count |-> count, ring |-> WritePublish(WriteCopy(rb, src, count), count) ]

\* read(dst, n) -> n_read, as one step.
RingBuffer_read(rb, n) ==
    LET count == ReadCount(rb, n)
    IN  [ count |-> count, data |-> ReadCopy(rb, count), ring |-> ReadPublish(rb, count) ]

(* ---- one ring, its producer and its consumer (SpecRing) ---- *)

VARIABLES
    rb,          \* the ring
    pPc,         \* producer inside write(): "idle", "copy", "publish"
    pSrc,        \* write()'s src, n = Len(pSrc)
    pObs,        \* the read index write() loaded
    pCount,      \* the count write() settled on
    cPc,         \* consumer inside read(): "idle", "copy", "publish"
    cReq,        \* read()'s n
    cObs,        \* the write index read() loaded
    cCount,      \* the count read() settled on
    cData,       \* what read() copied to dst
    offered,     \* samples offered to write() so far (they are numbered 1, 2, ...)
    accepted,    \* the samples successive writes accepted, in order
    delivered    \* the samples successive reads returned, in order

rvars == <<rb, pPc, pSrc, pObs, pCount, cPc, cReq, cObs, cCount, cData,
           offered, accepted, delivered>>

RingInit ==
    /\ rb = RingBuffer(kRingCapacity)
    /\ pPc = "idle"
    /\ pSrc = <<>>
    /\ pObs = 0
    /\ pCount = 0
    /\ cPc = "idle"
    /\ cReq = 0
    /\ cObs = 0
    /\ cCount = 0
    /\ cData = <<>>
    /\ offered = 0
    /\ accepted = <<>>
    /\ delivered = <<>>

(* ---------------------------- AudioEngine ----------------------------- *)

VARIABLES
    ctl,              \* control thread: "idle" or its place inside start() / stop()
    callOp,           \* the public call in progress or last returned
    callRet,          \* what it returned ("(pending)" while in progress)
    callBackend,      \* whether that call has called into PortAudio
    running_,         \* std::atomic<bool> running_
    shouldRestart_,   \* std::atomic<bool> shouldRestart_
    config_,          \* AudioConfig config_
    paInit,           \* PortAudio initialisation count (Pa_Initialize - Pa_Terminate)
    captureStream_,   \* PaStream* : "null", "open" (stopped) or "active" (started)
    outputStream_,
    state_,           \* DenoiseState* state_ is live
    state2_,          \* DenoiseState* state2_ is live
    captureRing_,     \* std::unique_ptr<RingBuffer>: NoRing or a ring
    outputRing_,
    worker,           \* processingThread_: "none", its place in processingLoop, or "exited"
    attempt,          \* attemptRestart's loop variable
    frame,            \* processingLoop's float frame[kRNNoiseFrameSize]
    capCb,            \* capture callback invocation in flight: "idle", or its place
                      \* ("enter", "write"; "_xrun" when its statusFlags report an xrun)
    outCb,            \* output callback invocation in flight: "idle", "enter", "read" (same)
    captured,         \* samples the capture device has delivered since the rings were allocated
    capAccepted,         \* history: the samples captureRing_ has taken in, in order
    outBuf,           \* the output callback's buffer: <<>> until the invocation in
                      \* flight has defined it, then what it hands to the device
    slept,            \* attemptRestart: milliseconds of the backoff sleep before the
                      \* attempt in progress (0 outside the routine)
    statusCallback_,  \* StatusCallback statusCallback_ holds a callable
    statusMsg,        \* the message of the latest statusCallback_ invocation ("" if none)
    exhausted,        \* history: the latest thing attemptRestart had to report, since the
                      \* last start(), is that its attempts are used up
    hpf_,             \* BiquadState hpf_: its delay cells
    lpf_,             \* BiquadState lpf_: its delay cells
    restarted,        \* attemptRestart has succeeded and no frame was processed since
    ub                \* a thread used a released ring or a destroyed denoiser

apiVars    == <<ctl, callOp, callRet, callBackend>>
flagVars   == <<running_, shouldRestart_>>
streamVars == <<captureStream_, outputStream_>>
rnVars     == <<state_, state2_>>
ringVars   == <<captureRing_, outputRing_, captured, capAccepted>>
workerVars == <<worker, attempt, frame, slept>>
cbVars     == <<capCb, outCb, outBuf>>
statusVars == <<statusCallback_, statusMsg, exhausted>>
filterVars == <<hpf_, lpf_, restarted>>

\* RNNoiseWrapper's remaining members, which SpecRn follows: Spec keeps of
\* the denoiser its two handles and the filter cells only.
VARIABLES
    suppressionLevel_,      \* std::atomic<float>, in units of 1/One
    vadThreshold_,          \* std::atomic<float>
    comfortNoiseEnabled_,   \* std::atomic<bool>
    smoothGain_,            \* float smoothGain_
    holdCounter_,           \* int holdCounter_
    noiseFloorEstimate_,    \* float noiseFloorEstimate_
    calibrationFrames_,     \* uint64_t calibrationFrames_
    noiseState_,            \* uint32_t noiseState_: its 32 bits, bit 0 the lowest
    prevNoise_,             \* float prevNoise_
    metrics_,               \* AudioMetrics metrics_
    pfSinceInit,            \* history: processFrame calls since the last init()
    pfIn,                   \* history: the frame the latest processFrame call was given
    pfOut,                  \* history: the frame it left in the buffer
    pfRet,                  \* history: the value it returned
    pfPostRms,              \* history: the post-filter RMS of the latest full-path call
    pfTarget,               \* history: the gate target of the latest full-path call
    qualified,              \* history: since the last init() a full-path frame had
                            \* vad < vadThreshold_ / 2
    reinitialised,          \* history: init() has been called on a wrapper that had
                            \* processed frames
    sinceSpeech,            \* history: full-path frames since the last one in which
                            \* speech was detected (counted up to kHoldFrames + 1),
                            \* -1 when there has been none since init()
    openRun                 \* history: full-path frames, all with speech detected,
                            \* since smoothGain_ was 0 (counted up to MaxOpenRun),
                            \* 0 when there is no such run

paramVars   == <<suppressionLevel_, vadThreshold_, comfortNoiseEnabled_>>
gateVars    == <<smoothGain_, holdCounter_, noiseFloorEstimate_, calibrationFrames_,
                 noiseState_, prevNoise_>>
gateHist    == <<sinceSpeech, openRun>>
callVars    == <<pfSinceInit, pfIn, pfOut, pfRet, pfPostRms, pfTarget, qualified,
                 reinitialised, gateHist>>
wrapperVars == <<paramVars, gateVars, metrics_, callVars>>

evars == <<apiVars, flagVars, config_, paInit, streamVars, rnVars, ringVars,
           workerVars, cbVars, statusVars, filterVars, ub>>

\* addon.cc Start(): device indices from JavaScript (-1 default, -2 mute), 48 kHz,
\* framesPerBuffer = kRNNoiseFrameSize, exclusive mode requested.
Configs ==
    { [ inputDeviceIndex |-> -1, outputDeviceIndex |-> o,
        framesPerBuffer |-> kRNNoiseFrameSize ] : o \in {-1, -2} }

(* ---- BiquadState: Direct Form I, coefficients and samples in thousandths ---- *)

\* initFilters(): the 80 Hz high-pass and the 8 kHz low-pass at 48 kHz.
kHpfCoeffs == [ b0 |-> 993, b1 |-> -1985, b2 |-> 993, a1 |-> -1985, a2 |-> 985 ]

kLpfCoeffs == [ b0 |-> 155, b1 |-> 310, b2 |-> 155, a1 |-> -620, a2 |-> 240 ]

\* reset(): x1 = x2 = y1 = y2 = 0.
BiquadState_reset == [ x1 |-> 0, x2 |-> 0, y1 |-> 0, y2 |-> 0 ]

Coeffs == [ b0 : Int, b1 : Int, b2 : Int, a1 : Int, a2 : Int ]

DelayCells == [ x1 : Int, x2 : Int, y1 : Int, y2 : Int ]

\* process(x): y = b0*x + b1*x1 + b2*x2 - a1*y1 - a2*y2, then the delay
\* lines shift.
BiquadState_process[c \in Coeffs, st \in DelayCells, x \in Int] ==
    LET y == (c.b0 * x + c.b1 * st.x1 + c.b2 * st.x2
              - c.a1 * st.y1 - c.a2 * st.y2) \div 1000
    IN  [ y |-> y, st |-> [ x1 |-> x, x2 |-> st.x1, y1 |-> y, y2 |-> st.y1 ] ]

AudioEngineInit ==
    /\ ctl = "idle"
    /\ callOp = "none"
    /\ callRet = ""
    /\ callBackend = FALSE
    /\ running_ = FALSE
    /\ shouldRestart_ = FALSE
    /\ config_ = [ inputDeviceIndex |-> -1, outputDeviceIndex |-> -1,
                   framesPerBuffer |-> kRNNoiseFrameSize ]
    /\ paInit = 0
    /\ captureStream_ = NULL
    /\ outputStream_ = NULL
    /\ state_ = FALSE
    /\ state2_ = FALSE
    /\ captureRing_ = NoRing
    /\ outputRing_ = NoRing
    /\ worker = "none"
    /\ attempt = 0
    /\ frame = <<>>
    /\ slept = 0
    /\ capCb = "idle"
    /\ outCb = "idle"
    /\ captured = 0
    /\ capAccepted = <<>>
    /\ outBuf = <<>>
    /\ statusCallback_ = FALSE
    /\ statusMsg = ""
    /\ exhausted = FALSE
    /\ hpf_ = BiquadState_reset
    /\ lpf_ = BiquadState_reset
    /\ restarted = FALSE
    /\ ub = FALSE

isRunning == running_

processingThread_joinable == worker # "none"

\* A control call returns ret.
Return(ret) == ctl' = "idle" /\ callRet' = ret

(* ---- PortAudio, as the engine uses it ---- *)

\* Pa_Terminate(): undoes one Pa_Initialize (an error when there is none).
Pa_Terminate(count) == IF count > 0 THEN count - 1 ELSE 0

\* Pa_StopStream returns once the stream's callback is no longer executing.
Pa_StopStream(stream) == IF stream = NULL THEN NULL ELSE "open"

\* openStreams(): outcome o of the device lookups and of the two Pa_OpenStream
\* calls (each after its shared-mode retry). Called with both handles null.
OpenOutcomes == {"ok", "noInput", "noOutput", "captureOpen", "outputOpen"}

openStreams_err(o) ==
    CASE o = "ok"          -> ""
      [] o = "noInput"     -> "No input device available"
      [] o = "noOutput"    -> "No output device available"
      [] o = "captureOpen" -> "Failed to open capture stream"
      [] o = "outputOpen"  -> "Failed to open output stream"

\* openStreams() returning the output stream's error with the capture stream
\* left open.
openStreams_capture_Leaks(o, cur) == IF o \in {"ok", "outputOpen"} THEN "open" ELSE cur

\* The capture handle after openStreams: set by a successful open, closed and
\* nulled again when the output open fails.
openStreams_capture(o, cur) == IF o = "ok" THEN "open" ELSE IF o = "outputOpen" THEN NULL ELSE cur

openStreams_output(o, cur) == IF o = "ok" THEN "open" ELSE cur

\* closeStreams(): both handles closed and nulled.
closeStreams == captureStream_' = NULL /\ outputStream_' = NULL

(* ---- RNNoiseWrapper lifecycle, as the engine uses it ---- *)

\* init(): rnnoise_create for both handles (c1, c2 tell whether each
\* succeeded), then initFilters(), which resets both biquads.
rnnoise_init(c1, c2) ==
    /\ state_' = c1
    /\ state2_' = c2
    /\ hpf_' = BiquadState_reset
    /\ lpf_' = BiquadState_reset

rnnoise_destroy == state_' = FALSE /\ state2_' = FALSE

\* The denoised value of a sample (the two RNNoise passes are not modelled here).
Denoised(s) == 0 - s

\* processFrame, step 5: frame[i] = lpf_.process(hpf_.process(frame[i])) for
\* the samples from i on.
FilterFrom[f \in Seq(Int), i \in Nat, h \in DelayCells, l \in DelayCells] ==
    IF i > Len(f) THEN [ frame |-> f, hpf |-> h, lpf |-> l ]
    ELSE LET ph == BiquadState_process[kHpfCoeffs, h, f[i]]
             pl == BiquadState_process[kLpfCoeffs, l, ph.y]
         IN  FilterFrom[[ f EXCEPT ![i] = pl.y ], i + 1, ph.st, pl.st]

\* processFrame(frame): null handles leave the frame and the filters untouched.
processFrame(f, s1, s2, h, l) ==
    IF ~s1 \/ ~s2 THEN [ frame |-> f, hpf |-> h, lpf |-> l ]
    ELSE FilterFrom[[ i \in DOMAIN f |-> Denoised(f[i]) ], 1, h, l]

(* ---- RNNoiseWrapper in full (SpecRn): fixed point, One stands for 1.0f ---- *)

One == 10000

\* Products and quotients of fixed-point values.
Mul(a, b) == (a * b) \div One

Div(a, b) == (a * One) \div b

\* A float NaN, as a value outside every range of the model.
NaN == 1000000

\* operator< and operator<= on floats: false when either side is NaN.
Lt(a, b) == a # NaN /\ b # NaN /\ a < b

Le(a, b) == a # NaN /\ b # NaN /\ a <= b

\* std::clamp, std::max, std::abs.
Clamp(v, lo, hi) == IF Lt(v, lo) THEN lo ELSE IF Lt(hi, v) THEN hi ELSE v

Max(a, b) == IF a < b THEN b ELSE a

Abs(x) == IF x < 0 THEN 0 - x ELSE x

\* The tuning constants of rnnoise_wrapper.cpp.
kGateCloseCoeff == 4000

kGateOpenCoeff == 1500

kMinGateGain == 0

kHoldFrames == 15

kVadHysteresis == 1200

\* kCalibrationPeriod = 200 frames, scaled down.
kCalibrationPeriod == 1

kCalibrationAlpha == 800

kTrackingAlpha == 50

kFloorMultiplier == 15000

kAbsoluteMinFloor == 3

kFallbackThreshold == 20

kSpectralClampMult == 20000

kClampGateThreshold == 3000

kSoftSilenceLevel == 10

kNoiseShapeCoeff == 7000

kSoftSilenceGateThresh == 1000

\* std::atomic<float> vadThreshold_{0.65f}
kDefaultVadThreshold == 6500

\* noiseState_ = 0x12345678
kNoiseSeed == 305419896

\* processFrame calls the model follows after one init().
MaxFrames == 2

\* Frames per init() in SpecGate, and the longest opening run that is counted.
MaxGateFrames == 36

MaxOpenRun == 16

\* What the gate sees of a frame in SpecGate: the VAD value and the RMS after the filters.
GateVads == {0, 9000}

GateRms == {3800}

\* What the model feeds the wrapper: microphone frames of one level each, the
\* VAD values RNNoise reports, the arguments the setters are called with.
MicLevels == {30, 6000}

MicFrames == { [ i \in 1 .. kRNNoiseFrameSize |-> a ] : a \in MicLevels }

VadValues == {0, 6000, 9000}

LevelArgs == {-5000, 5000, 15000}

ThresholdArgs == {-5000, 15000}

\* RNNoise is a library outside the repository: the frame a pass leaves is its
\* input attenuated by a factor the step chooses.
RnAttenuations == {1, 100}

rnnoise_process_frame(in, att) == [ i \in DOMAIN in |-> in[i] \div att ]

\* A uint32_t as its bits.
Bits32 == [ 0 .. 31 -> {0, 1} ]

ToBits(n) == [ i \in 0 .. 31 |-> IF i = 31 THEN 0 ELSE (n \div 2 ^ i) % 2 ]

\* x ^= x << 13; x ^= x >> 17; x ^= x << 5 on 32 bits.
Xorshift32[s \in Bits32] ==
    LET a == [ i \in 0 .. 31 |-> (s[i] + (IF i >= 13 THEN s[i - 13] ELSE 0)) % 2 ]
        b == [ i \in 0 .. 31 |-> (a[i] + (IF i + 17 <= 31 THEN a[i + 17] ELSE 0)) % 2 ]
    IN  [ i \in 0 .. 31 |-> (b[i] + (IF i >= 5 THEN b[i - 5] ELSE 0)) % 2 ]

RECURSIVE BitsFrom(_, _, _)
\* The number whose bits are s[i] .. s[hi], s[i] the lowest.
BitsFrom(s, i, hi) == IF i > hi THEN 0 ELSE s[i] + 2 * BitsFrom(s, i + 1, hi)

\* static_cast<int32_t>(noiseState_) / 2147483648.0f, from the upper 16 bits.
White(s) == ((BitsFrom(s, 16, 30) - 32768 * s[31]) * One) \div 32768

\* comfortNoiseSample(): one xorshift step, the 1-pole shaping, the level.
comfortNoiseSample[ns \in Bits32, pn \in Int] ==
    LET shaped == Mul(kNoiseShapeCoeff, pn)
                  + Mul(One - kNoiseShapeCoeff, White(Xorshift32[ns]))
    IN  [ sample |-> Mul(shaped, kSoftSilenceLevel),
          noiseState |-> Xorshift32[ns],
          prevNoise |-> shaped ]

RECURSIVE IsqrtFrom(_, _, _)
\* The largest r + (bits of b and below) whose square is at most n.
IsqrtFrom(n, r, b) ==
    IF b = 0 THEN r
    ELSE IF (r + b) * (r + b) <= n THEN IsqrtFrom(n, r + b, b \div 2)
    ELSE IsqrtFrom(n, r, b \div 2)

SumSqFrom[buf \in Seq(Int), i \in Nat] ==
    IF i > Len(buf) THEN 0 ELSE buf[i] * buf[i] + SumSqFrom[buf, i + 1]

\* computeRms(buf, len): sqrt(sum of squares / len).
computeRms(buf) == IsqrtFrom(SumSqFrom[buf, 1] \div Len(buf), 0, 16384)

\* updateNoiseFloor: bool isNoise = (vad < vadThresh * 0.5f).
IsNoise(vad, vadThresh) == Lt(vad, IF vadThresh = NaN THEN NaN ELSE Mul(vadThresh, 5000))

\* updateNoiseFloor without the final max with kAbsoluteMinFloor.
updateNoiseFloor_NoMin(est, cal, postRms, vad, vadThresh) ==
    IF ~IsNoise(vad, vadThresh) THEN [ est |-> est, cal |-> cal ]
    ELSE [ est |-> IF est <= 0 THEN postRms
                   ELSE est + Mul(IF cal < kCalibrationPeriod THEN kCalibrationAlpha
                                  ELSE kTrackingAlpha, postRms - est),
           cal |-> IF cal < kCalibrationPeriod THEN cal + 1 ELSE cal ]

\* updateNoiseFloor(postRms, vad): the estimate and the calibration count it
\* leaves; the estimate is what it publishes.
updateNoiseFloor(est, cal, postRms, vad, vadThresh) ==
    IF ~IsNoise(vad, vadThresh) THEN [ est |-> est, cal |-> cal ]
    ELSE LET alpha == IF cal < kCalibrationPeriod THEN kCalibrationAlpha
                      ELSE kTrackingAlpha
             moved == IF est <= 0 THEN postRms ELSE est + Mul(alpha, postRms - est)
         IN  [ est |-> Max(moved, kAbsoluteMinFloor),
               cal |-> IF cal < kCalibrationPeriod THEN cal + 1 ELSE cal ]

\* computeGateTarget: the gate threshold from the learned floor.
GateThresh(est) ==
    IF est > kAbsoluteMinFloor THEN Mul(est, kFloorMultiplier) ELSE kFallbackThreshold

\* computeGateTarget letting the partial target go up to 1.
computeGateTarget_WideClamp(est, hold, vad, postRms, vadThresh) ==
    LET gateThresh     == GateThresh(est)
        speechByVad    == Le(vadThresh, vad)
        speechByEnergy == /\ Le(IF vadThresh = NaN THEN NaN ELSE vadThresh - kVadHysteresis, vad)
                          /\ postRms > Mul(gateThresh, 2 * One)
    IN  IF speechByVad \/ speechByEnergy THEN [ target |-> One, hold |-> kHoldFrames ]
        ELSE IF hold > 0 THEN [ target |-> One, hold |-> hold - 1 ]
        ELSE IF postRms < gateThresh THEN [ target |-> kMinGateGain, hold |-> hold ]
        ELSE [ target |-> Clamp(Div(postRms - gateThresh, Max(gateThresh, 1)),
                                kMinGateGain, One),
               hold |-> hold ]

\* computeGateTarget holding the gate open one frame less.
computeGateTarget_ShortHold(est, hold, vad, postRms, vadThresh) ==
    LET gateThresh     == GateThresh(est)
        speechByVad    == Le(vadThresh, vad)
        speechByEnergy == /\ Le(IF vadThresh = NaN THEN NaN ELSE vadThresh - kVadHysteresis, vad)
                          /\ postRms > Mul(gateThresh, 2 * One)
    IN  IF speechByVad \/ speechByEnergy THEN [ target |-> One, hold |-> kHoldFrames - 1 ]
        ELSE IF hold > 0 THEN [ target |-> One, hold |-> hold - 1 ]
        ELSE IF postRms < gateThresh THEN [ target |-> kMinGateGain, hold |-> hold ]
        ELSE [ target |-> Clamp(Div(postRms - gateThresh, Max(gateThresh, 1)),
                                kMinGateGain, 5000),
               hold |-> hold ]

\* computeGateTarget(vad, postRms): the target gain and the hold counter it leaves.
computeGateTarget(est, hold, vad, postRms, vadThresh) ==
    LET gateThresh     == GateThresh(est)
        speechByVad    == Le(vadThresh, vad)
        speechByEnergy == /\ Le(IF vadThresh = NaN THEN NaN ELSE vadThresh - kVadHysteresis, vad)
                          /\ postRms > Mul(gateThresh, 2 * One)
    IN  IF speechByVad \/ speechByEnergy THEN [ target |-> One, hold |-> kHoldFrames ]
        ELSE IF hold > 0 THEN [ target |-> One, hold |-> hold - 1 ]
        ELSE IF postRms < gateThresh THEN [ target |-> kMinGateGain, hold |-> hold ]
        ELSE [ target |-> Clamp(Div(postRms - gateThresh, Max(gateThresh, 1)),
                                kMinGateGain, 5000),
               hold |-> hold ]

\* computeGateTarget: speech is detected by VAD alone, or by VAD within the
\* hysteresis of the threshold together with energy above twice the gate threshold.
SpeechDetected(est, vad, postRms, vadThresh) ==
    \/ Le(vadThresh, vad)
    \/ /\ Le(IF vadThresh = NaN THEN NaN ELSE vadThresh - kVadHysteresis, vad)
       /\ postRms > Mul(GateThresh(est), 2 * One)

\* Smoothing that steps twice the distance to the target and is not clamped.
SmoothGain_Overshoots(gain, targetGain) ==
    gain + Mul(2 * One, targetGain - gain)

\* Smoothing that opens with the closing coefficient.
SmoothGain_Symmetric(gain, targetGain) ==
    Clamp(gain + Mul(kGateCloseCoeff, targetGain - gain), kMinGateGain, One)

\* processFrame, step 9: asymmetric smoothing, then the clamp to [kMinGateGain, 1].
SmoothGain(gain, targetGain) ==
    Clamp(gain + Mul(IF targetGain < gain THEN kGateCloseCoeff ELSE kGateOpenCoeff,
                     targetGain - gain),
          kMinGateGain, One)

\* spectralClamp(frame, vad)
spectralClamp(f, vad, vadThresh, gain, est) ==
    IF Le(vadThresh, vad) \/ gain > kClampGateThreshold THEN f
    ELSE [ i \in DOMAIN f |->
             IF Abs(f[i]) < Max(Mul(est, kSpectralClampMult), kAbsoluteMinFloor * 3)
             THEN 0 ELSE f[i] ]

\* applySoftSilence, its loop from sample i on.
SoftSilenceFrom[f \in Seq(Int), i \in Nat, ns \in Bits32, pn \in Int, scale \in Int] ==
    IF i > Len(f) THEN [ frame |-> f, noiseState |-> ns, prevNoise |-> pn ]
    ELSE SoftSilenceFrom[
             [ f EXCEPT ![i] = @ + Mul(comfortNoiseSample[ns, pn].sample, scale) ],
             i + 1,
             comfortNoiseSample[ns, pn].noiseState,
             comfortNoiseSample[ns, pn].prevNoise,
             scale]

\* applySoftSilence(frame)
applySoftSilence(f, enabled, gain, ns, pn) ==
    IF ~enabled \/ gain >= kSoftSilenceGateThresh
    THEN [ frame |-> f, noiseState |-> ns, prevNoise |-> pn ]
    ELSE SoftSilenceFrom[f, 1, ns, pn,
                         Div(kSoftSilenceGateThresh - gain, kSoftSilenceGateThresh)]

\* processFrame, steps 2 to 4: scale to the int16 range, the two RNNoise
\* passes, scale back, blend with the original below full suppression.
Suppressed(f, att1, att2, level) ==
    LET scaled == [ i \in DOMAIN f |-> f[i] * 32767 ]
        passed == rnnoise_process_frame(rnnoise_process_frame(scaled, att1), att2)
    IN  [ i \in DOMAIN f |->
            IF Lt(level, One)
            THEN Mul(passed[i] \div 32767, level) + Mul(f[i], One - level)
            ELSE passed[i] \div 32767 ]

\* The engine's variables, which the wrapper's own steps leave alone.
engineRest == <<rvars, apiVars, flagVars, config_, paInit, streamVars, ringVars,
                workerVars, cbVars, statusVars, restarted, ub>>

MetricsReset ==
    [ inputRms |-> 0, outputRms |-> 0, vadProbability |-> 0, currentGain |-> One,
      noiseFloor |-> 0, framesProcessed |-> 0 ]

\* The wrapper after construction.
RNNoiseWrapperInit ==
    /\ suppressionLevel_ = One
    /\ vadThreshold_ = kDefaultVadThreshold
    /\ comfortNoiseEnabled_ = TRUE
    /\ smoothGain_ = One
    /\ holdCounter_ = 0
    /\ noiseFloorEstimate_ = 0
    /\ calibrationFrames_ = 0
    /\ noiseState_ = ToBits(kNoiseSeed)
    /\ prevNoise_ = 0
    /\ metrics_ = MetricsReset
    /\ pfSinceInit = 0
    /\ pfIn = <<>>
    /\ pfOut = <<>>
    /\ pfRet = 0
    /\ pfPostRms = 0
    /\ pfTarget = One
    /\ qualified = FALSE
    /\ reinitialised = FALSE
    /\ sinceSpeech = -1
    /\ openRun = 0

\* init() begins a new history of processFrame calls.
CallsReset ==
    /\ pfSinceInit' = 0
    /\ pfIn' = <<>>
    /\ pfOut' = <<>>
    /\ pfRet' = 0
    /\ pfPostRms' = 0
    /\ pfTarget' = One
    /\ qualified' = FALSE
    /\ reinitialised' = (reinitialised \/ metrics_.framesProcessed > 0)
    /\ sinceSpeech' = -1
    /\ openRun' = 0

\* init() that leaves the learned noise floor and the calibration count alone.
RNNoiseWrapper_init_KeepsFloor(c1, c2) ==
    /\ rnnoise_init(c1, c2)
    /\ smoothGain_' = One
    /\ holdCounter_' = 0
    /\ noiseState_' = ToBits(kNoiseSeed)
    /\ prevNoise_' = 0
    /\ metrics_' = MetricsReset
    /\ CallsReset
    /\ UNCHANGED <<engineRest, paramVars, noiseFloorEstimate_, calibrationFrames_>>

\* init() that also puts the suppression level back to its default.
RNNoiseWrapper_init_ResetsLevel(c1, c2) ==
    /\ rnnoise_init(c1, c2)
    /\ smoothGain_' = One
    /\ holdCounter_' = 0
    /\ noiseFloorEstimate_' = 0
    /\ calibrationFrames_' = 0
    /\ noiseState_' = ToBits(kNoiseSeed)
    /\ prevNoise_' = 0
    /\ metrics_' = MetricsReset
    /\ CallsReset
    /\ suppressionLevel_' = One
    /\ UNCHANGED <<engineRest, vadThreshold_, comfortNoiseEnabled_>>

\* init(): both handles created (c1, c2: whether each was), the gate state,
\* the comfort-noise generator, the filters and the metrics reset.
RNNoiseWrapper_init(c1, c2) ==
    /\ rnnoise_init(c1, c2)
    /\ smoothGain_' = One
    /\ holdCounter_' = 0
    /\ noiseFloorEstimate_' = 0
    /\ calibrationFrames_' = 0
    /\ noiseState_' = ToBits(kNoiseSeed)
    /\ prevNoise_' = 0
    /\ metrics_' = MetricsReset
    /\ CallsReset
    /\ UNCHANGED <<engineRest, paramVars>>

\* destroy()
RNNoiseWrapper_destroy ==
    /\ rnnoise_destroy
    /\ UNCHANGED <<engineRest, wrapperVars, hpf_, lpf_>>

\* The bypass path publishing the gate's own gain.
processFrame_bypass_PublishesGate(f) ==
    /\ pfOut' = f
    /\ pfRet' = 0
    /\ metrics_' = [ metrics_ EXCEPT !.inputRms = computeRms(f),
                                     !.outputRms = computeRms(f),
                                     !.vadProbability = 0,
                                     !.currentGain = smoothGain_,
                                     !.framesProcessed = @ + 1 ]
    /\ UNCHANGED <<gateVars, hpf_, lpf_, qualified, pfPostRms, pfTarget, gateHist>>

\* The bypass path returning before the frame is counted.
processFrame_bypass_NoCount(f) ==
    /\ pfOut' = f
    /\ pfRet' = 0
    /\ metrics_' = [ metrics_ EXCEPT !.inputRms = computeRms(f),
                                     !.outputRms = computeRms(f),
                                     !.vadProbability = 0,
                                     !.currentGain = One ]
    /\ UNCHANGED <<gateVars, hpf_, lpf_, qualified, pfPostRms, pfTarget, gateHist>>

\* The bypass path snapping the gate open.
processFrame_bypass_OpensGate(f) ==
    /\ pfOut' = f
    /\ pfRet' = 0
    /\ metrics_' = [ metrics_ EXCEPT !.inputRms = computeRms(f),
                                     !.outputRms = computeRms(f),
                                     !.vadProbability = 0,
                                     !.currentGain = One,
                                     !.framesProcessed = @ + 1 ]
    /\ smoothGain_' = One
    /\ UNCHANGED <<holdCounter_, noiseFloorEstimate_, calibrationFrames_, noiseState_,
                   prevNoise_, hpf_, lpf_, qualified, pfPostRms, pfTarget, gateHist>>

\* processFrame on the bypass path: the frame stays, the metrics are published.
processFrame_bypass(f) ==
    /\ pfOut' = f
    /\ pfRet' = 0
    /\ metrics_' = [ metrics_ EXCEPT !.inputRms = computeRms(f),
                                     !.outputRms = computeRms(f),
                                     !.vadProbability = 0,
                                     !.currentGain = One,
                                     !.framesProcessed = @ + 1 ]
    /\ UNCHANGED <<gateVars, hpf_, lpf_, qualified, pfPostRms, pfTarget, gateHist>>

\* The history of the gate after a full-path frame; speech tells whether speech
\* was detected in it.
GateHistory(speech) ==
    /\ sinceSpeech' = IF speech THEN 0
                      ELSE IF sinceSpeech < 0 \/ sinceSpeech > kHoldFrames THEN sinceSpeech
                      ELSE sinceSpeech + 1
    /\ openRun' = IF ~speech THEN 0
                  ELSE IF smoothGain_ = 0 THEN 1
                  ELSE IF openRun = 0 \/ openRun >= MaxOpenRun THEN openRun
                  ELSE openRun + 1

\* processFrame on the full path, steps 1 to 13.
processFrame_full(f, att1, att2, vad) ==
    /\ hpf_' = FilterFrom[Suppressed(f, att1, att2, suppressionLevel_), 1, hpf_, lpf_].hpf
    /\ lpf_' = FilterFrom[Suppressed(f, att1, att2, suppressionLevel_), 1, hpf_, lpf_].lpf
    /\ pfPostRms' =
         computeRms(FilterFrom[Suppressed(f, att1, att2, suppressionLevel_),
                               1, hpf_, lpf_].frame)
    /\ noiseFloorEstimate_' =
         updateNoiseFloor(noiseFloorEstimate_, calibrationFrames_, pfPostRms', vad,
                          vadThreshold_).est
    /\ calibrationFrames_' =
         updateNoiseFloor(noiseFloorEstimate_, calibrationFrames_, pfPostRms', vad,
                          vadThreshold_).cal
    /\ qualified' = (qualified \/ IsNoise(vad, vadThreshold_))
    /\ pfTarget' =
         computeGateTarget(noiseFloorEstimate_', holdCounter_, vad, pfPostRms',
                           vadThreshold_).target
    /\ holdCounter_' =
         computeGateTarget(noiseFloorEstimate_', holdCounter_, vad, pfPostRms',
                           vadThreshold_).hold
    /\ smoothGain_' = SmoothGain(smoothGain_, pfTarget')
    /\ GateHistory(SpeechDetected(noiseFloorEstimate_', vad, pfPostRms', vadThreshold_))
    /\ LET gated ==
             [ i \in 1 .. Len(f) |->
                 Mul(FilterFrom[Suppressed(f, att1, att2, suppressionLevel_),
                                1, hpf_, lpf_].frame[i], smoothGain_') ]
           silenced ==
             applySoftSilence(
                 spectralClamp(gated, vad, vadThreshold_, smoothGain_',
                               noiseFloorEstimate_'),
                 comfortNoiseEnabled_, smoothGain_', noiseState_, prevNoise_)
       IN  /\ pfOut' = silenced.frame
           /\ noiseState_' = silenced.noiseState
           /\ prevNoise_' = silenced.prevNoise
    /\ metrics_' = [ inputRms |-> computeRms(f),
                     outputRms |-> computeRms(pfOut'),
                     vadProbability |-> vad,
                     currentGain |-> smoothGain_',
                     noiseFloor |-> noiseFloorEstimate_',
                     framesProcessed |-> metrics_.framesProcessed + 1 ]
    /\ pfRet' = vad

\* processFrame(frame): f is the frame, att1 and att2 what the two RNNoise
\* passes do to it, vad1 and vad2 the VAD values they return.
RNNoiseWrapper_processFrame(f, att1, att2, vad1, vad2) ==
    /\ pfSinceInit < MaxFrames
    /\ pfSinceInit' = pfSinceInit + 1
    /\ pfIn' = f
    /\ IF ~state_ \/ ~state2_
       THEN /\ pfOut' = f
            /\ pfRet' = 0
            /\ UNCHANGED <<gateVars, metrics_, hpf_, lpf_, qualified, pfPostRms, pfTarget, gateHist>>
       ELSE IF Le(suppressionLevel_, 0)
       THEN processFrame_bypass(f)
       ELSE processFrame_full(f, att1, att2, Max(vad1, vad2))
    /\ UNCHANGED <<engineRest, paramVars, rnVars, reinitialised>>

\* processFrame on the full path, steps 6 to 9 and the metrics they publish,
\* for a frame whose two RNNoise passes returned vad and whose filtered
\* samples have the RMS postRms; the samples themselves are left out.
gate_frame(vad, postRms) ==
    /\ state_ /\ state2_
    /\ ~Le(suppressionLevel_, 0)
    /\ metrics_.framesProcessed < MaxGateFrames
    /\ pfPostRms' = postRms
    /\ noiseFloorEstimate_' =
         updateNoiseFloor(noiseFloorEstimate_, calibrationFrames_, postRms, vad,
                          vadThreshold_).est
    /\ calibrationFrames_' =
         updateNoiseFloor(noiseFloorEstimate_, calibrationFrames_, postRms, vad,
                          vadThreshold_).cal
    /\ qualified' = (qualified \/ IsNoise(vad, vadThreshold_))
    /\ pfTarget' =
         computeGateTarget(noiseFloorEstimate_', holdCounter_, vad, postRms,
                           vadThreshold_).target
    /\ holdCounter_' =
         computeGateTarget(noiseFloorEstimate_', holdCounter_, vad, postRms,
                           vadThreshold_).hold
    /\ smoothGain_' = SmoothGain(smoothGain_, pfTarget')
    /\ GateHistory(SpeechDetected(noiseFloorEstimate_', vad, postRms, vadThreshold_))
    /\ metrics_' = [ metrics_ EXCEPT !.vadProbability = vad,
                                     !.currentGain = smoothGain_',
                                     !.noiseFloor = noiseFloorEstimate_',
                                     !.framesProcessed = @ + 1 ]
    /\ pfRet' = vad
    /\ UNCHANGED <<engineRest, paramVars, rnVars, hpf_, lpf_, noiseState_, prevNoise_,
                   pfSinceInit, pfIn, pfOut, reinitialised>>

\* setSuppressionLevel(level): store clamp(level, 0, 1).
setSuppressionLevel(level) ==
    /\ suppressionLevel_' = Clamp(level, 0, One)
    /\ UNCHANGED <<engineRest, vadThreshold_, comfortNoiseEnabled_, gateVars, metrics_,
                   callVars, rnVars, hpf_, lpf_>>

\* setVadThreshold(threshold): store clamp(threshold, 0, 1).
setVadThreshold(threshold) ==
    /\ vadThreshold_' = Clamp(threshold, 0, One)
    /\ UNCHANGED <<engineRest, suppressionLevel_, comfortNoiseEnabled_, gateVars, metrics_,
                   callVars, rnVars, hpf_, lpf_>>

\* setComfortNoise(enabled)
setComfortNoise(enabled) ==
    /\ comfortNoiseEnabled_' = enabled
    /\ UNCHANGED <<engineRest, suppressionLevel_, vadThreshold_, gateVars, metrics_,
                   callVars, rnVars, hpf_, lpf_>>

(* ---- the addon's setters (addon.cc) ---- *)

\* The arguments of a call from JavaScript: none, or one value that is or is not
\* a Number; NaN is a Number.
JsNumbers == {-5000, 15000, NaN}

JsValues ==
    { [ IsNumber |-> FALSE, FloatValue |-> 0 ] }
        \cup { [ IsNumber |-> TRUE, FloatValue |-> x ] : x \in JsNumbers }

JsArgs == { <<>> } \cup { <<v>> : v \in JsValues }

\* AudioEngine::setSuppressionLevel and setVadThreshold forward to the wrapper.
AudioEngine_setSuppressionLevel(level) == setSuppressionLevel(level)

AudioEngine_setVadThreshold(threshold) == setVadThreshold(threshold)

\* setNoiseLevel(level): ignored unless info[0] is a Number.
SetNoiseLevel(info) ==
    IF Len(info) < 1 \/ ~info[1].IsNumber
    THEN UNCHANGED <<engineRest, wrapperVars, rnVars, hpf_, lpf_>>
    ELSE AudioEngine_setSuppressionLevel(info[1].FloatValue)

\* setVadThreshold(threshold): ignored unless info[0] is a Number.
SetVadThreshold(info) ==
    IF Len(info) < 1 \/ ~info[1].IsNumber
    THEN UNCHANGED <<engineRest, wrapperVars, rnVars, hpf_, lpf_>>
    ELSE AudioEngine_setVadThreshold(info[1].FloatValue)

(* ---- the status callback ---- *)

\* if (statusCallback_) statusCallback_(msg);
statusCallback(msg) ==
    /\ statusMsg' = IF statusCallback_ THEN msg ELSE statusMsg
    /\ exhausted' = (msg = "Failed to restart audio engine after multiple attempts")
    /\ UNCHANGED statusCallback_

\* setStatusCallback(cb) with a callable cb: statusCallback_ = std::move(cb).
\* It is a plain std::function the worker reads, so the host installs it
\* while no worker exists.
setStatusCallback ==
    /\ ctl = "idle"
    /\ worker = "none"
    /\ ~statusCallback_
    /\ statusCallback_' = TRUE
    /\ UNCHANGED <<rvars, wrapperVars, apiVars, flagVars, config_, paInit, streamVars, rnVars,
                   ringVars, workerVars, cbVars, statusMsg, exhausted, filterVars, ub>>

(* ---- start() ---- *)

\* start() storing the config before it looks at running_.
start_AlreadyRunning_StoresConfig(cfg) ==
    /\ ctl = "idle"
    /\ running_
    /\ callOp' = "start"
    /\ callBackend' = FALSE
    /\ config_' = cfg
    /\ Return("Engine already running")
    /\ UNCHANGED <<rvars, wrapperVars, flagVars, paInit, streamVars, rnVars, ringVars,
                   workerVars, cbVars, ub, statusVars, filterVars>>

\* start() while running: "Engine already running".
start_AlreadyRunning(cfg) ==
    /\ ctl = "idle"
    /\ running_
    /\ callOp' = "start"
    /\ callBackend' = FALSE
    /\ Return("Engine already running")
    /\ UNCHANGED <<rvars, wrapperVars, flagVars, config_, paInit, streamVars, rnVars, ringVars,
                   workerVars, cbVars, ub, statusVars, filterVars>>

\* start(): store the config, Pa_Initialize.
start_init(cfg) ==
    /\ ctl = "idle"
    /\ ~running_
    /\ callOp' = "start"
    /\ callBackend' = TRUE
    /\ config_' = cfg
    /\ \E ok \in BOOLEAN :
         IF ok
         THEN /\ paInit' = paInit + 1
              /\ ctl' = "start_alloc"
              /\ callRet' = "(pending)"
         ELSE /\ paInit' = paInit
              /\ Return("Pa_Initialize failed")
    /\ UNCHANGED <<rvars, wrapperVars, flagVars, streamVars, rnVars, ringVars, workerVars, cbVars, ub,
                   statusVars, filterVars>>

\* start(): allocate the rings, initialise RNNoise.
start_alloc ==
    /\ ctl = "start_alloc"
    /\ captureRing_' = RingBuffer(kRingCapacity)
    /\ outputRing_' = RingBuffer(kRingCapacity)
    /\ captured' = 0
    /\ capAccepted' = <<>>
    /\ restarted' = FALSE
    /\ \E c1, c2 \in BOOLEAN :
         /\ rnnoise_init(c1, c2)
         /\ IF c1 /\ c2
            THEN /\ ctl' = "start_open"
                 /\ UNCHANGED <<paInit, callRet>>
            ELSE /\ paInit' = Pa_Terminate(paInit)
                 /\ Return("RNNoise initialization failed")
    /\ exhausted' = FALSE
    /\ UNCHANGED <<rvars, wrapperVars, callOp, callBackend, flagVars, config_, streamVars, workerVars,
                   cbVars, ub, statusCallback_, statusMsg>>

\* start(): openStreams().
start_open ==
    /\ ctl = "start_open"
    /\ \E o \in OpenOutcomes :
         /\ captureStream_' = openStreams_capture(o, captureStream_)
         /\ outputStream_' = openStreams_output(o, outputStream_)
         /\ IF o = "ok"
            THEN /\ ctl' = "start_capture"
                 /\ UNCHANGED <<callRet, rnVars, paInit>>
            ELSE /\ rnnoise_destroy
                 /\ paInit' = Pa_Terminate(paInit)
                 /\ Return(openStreams_err(o))
    /\ UNCHANGED <<rvars, wrapperVars, callOp, callBackend, flagVars, config_, ringVars, workerVars,
                   cbVars, ub, statusVars, filterVars>>

\* start(): Pa_StartStream(captureStream_).
start_capture ==
    /\ ctl = "start_capture"
    /\ \E ok \in BOOLEAN :
         IF ok
         THEN /\ captureStream_' = "active"
              /\ ctl' = "start_output"
              /\ UNCHANGED <<outputStream_, callRet, rnVars, paInit>>
         ELSE /\ closeStreams
              /\ rnnoise_destroy
              /\ paInit' = Pa_Terminate(paInit)
              /\ Return("Failed to start capture stream")
    /\ UNCHANGED <<rvars, wrapperVars, callOp, callBackend, flagVars, config_, ringVars, workerVars,
                   cbVars, ub, statusVars, filterVars>>

\* start() not looking at what Pa_StartStream(outputStream_) returned.
start_output_Unchecked ==
    /\ ctl = "start_output"
    /\ \E ok \in BOOLEAN :
         outputStream_' = IF ok THEN "active" ELSE outputStream_
    /\ ctl' = "start_run"
    /\ UNCHANGED <<rvars, wrapperVars, callOp, callRet, callBackend, flagVars, config_, paInit,
                   captureStream_, rnVars, ringVars, workerVars, cbVars, ub,
                   statusVars, filterVars>>

\* start(): Pa_StartStream(outputStream_); the failure path stops the capture
\* stream, which waits for a capture callback in flight.
start_output ==
    /\ ctl = "start_output"
    /\ \E ok \in BOOLEAN :
         IF ok
         THEN /\ outputStream_' = "active"
              /\ ctl' = "start_run"
              /\ UNCHANGED <<captureStream_, callRet, rnVars, paInit>>
         ELSE /\ capCb = "idle"
              /\ closeStreams
              /\ rnnoise_destroy
              /\ paInit' = Pa_Terminate(paInit)
              /\ Return("Failed to start output stream")
    /\ UNCHANGED <<rvars, wrapperVars, callOp, callBackend, flagVars, config_, ringVars, workerVars,
                   cbVars, ub, statusVars, filterVars>>

\* start(): running_.store(true).
start_run ==
    /\ ctl = "start_run"
    /\ running_' = TRUE
    /\ ctl' = "start_spawn"
    /\ UNCHANGED <<rvars, wrapperVars, callOp, callRet, callBackend, shouldRestart_, config_, paInit,
                   streamVars, rnVars, ringVars, workerVars, cbVars, ub,
                   statusVars, filterVars>>

\* start(): launch processingLoop on its thread; return "".
start_spawn ==
    /\ ctl = "start_spawn"
    /\ worker' = "loop"
    /\ Return("")
    /\ UNCHANGED <<rvars, wrapperVars, callOp, callBackend, flagVars, config_, paInit, streamVars,
                   rnVars, ringVars, attempt, frame, cbVars, ub,
                   statusVars, filterVars, slept>>

(* ---- stop() ---- *)

\* stop() without the early return: the teardown runs on a stopped engine.
stop_NotRunning_TearsDown ==
    /\ ctl = "idle"
    /\ ~running_
    /\ callOp' = "stop"
    /\ callBackend' = TRUE
    /\ Return("")
    /\ closeStreams
    /\ rnnoise_destroy
    /\ captureRing_' = NoRing
    /\ outputRing_' = NoRing
    /\ paInit' = Pa_Terminate(paInit)
    /\ UNCHANGED <<rvars, wrapperVars, flagVars, config_, captured, capAccepted, workerVars, cbVars, ub,
                   statusVars, filterVars>>

\* stop() on an engine that is not running returns at once.
stop_NotRunning ==
    /\ ctl = "idle"
    /\ ~running_
    /\ callOp' = "stop"
    /\ callBackend' = FALSE
    /\ Return("")
    /\ UNCHANGED <<rvars, wrapperVars, flagVars, config_, paInit, streamVars, rnVars, ringVars,
                   workerVars, cbVars, ub, statusVars, filterVars>>

\* stop() going on to the streams without joining the worker.
stop_signal_NoJoin ==
    /\ ctl = "idle"
    /\ running_
    /\ running_' = FALSE
    /\ ctl' = "stop_capture"
    /\ callOp' = "stop"
    /\ callRet' = "(pending)"
    /\ callBackend' = FALSE
    /\ UNCHANGED <<rvars, wrapperVars, shouldRestart_, config_, paInit, streamVars, rnVars,
                   ringVars, workerVars, cbVars, ub, statusVars, filterVars>>

\* stop(): running_.store(false).
stop_signal ==
    /\ ctl = "idle"
    /\ running_
    /\ running_' = FALSE
    /\ ctl' = "stop_join"
    /\ callOp' = "stop"
    /\ callRet' = "(pending)"
    /\ callBackend' = FALSE
    /\ UNCHANGED <<rvars, wrapperVars, shouldRestart_, config_, paInit, streamVars, rnVars, ringVars,
                   workerVars, cbVars, ub, statusVars, filterVars>>

\* The worker has left processingLoop, so join() returns.
JoinReturns == worker = "exited"

\* stop() detaching the worker instead of joining it.
stop_join_Detach ==
    /\ ctl = "stop_join"
    /\ ctl' = "stop_capture"
    /\ UNCHANGED <<rvars, wrapperVars, callOp, callRet, callBackend, flagVars, config_, paInit,
                   streamVars, rnVars, ringVars, workerVars, cbVars, ub,
                   statusVars, filterVars>>

\* stop(): if (processingThread_.joinable()) processingThread_.join().
stop_join ==
    /\ ctl = "stop_join"
    /\ IF processingThread_joinable
       THEN JoinReturns /\ worker' = "none"
       ELSE worker' = worker
    /\ ctl' = "stop_capture"
    /\ UNCHANGED <<rvars, wrapperVars, callOp, callRet, callBackend, flagVars, config_, paInit,
                   streamVars, rnVars, ringVars, attempt, frame, cbVars, ub,
                   statusVars, filterVars, slept>>

\* stop(): if (captureStream_) Pa_StopStream(captureStream_).
stop_capture ==
    /\ ctl = "stop_capture"
    /\ capCb = "idle"
    /\ captureStream_' = Pa_StopStream(captureStream_)
    /\ callBackend' = (callBackend \/ captureStream_ # NULL)
    /\ ctl' = "stop_output"
    /\ UNCHANGED <<rvars, wrapperVars, callOp, callRet, flagVars, config_, paInit, outputStream_,
                   rnVars, ringVars, workerVars, cbVars, ub, statusVars, filterVars>>

\* stop(): if (outputStream_) Pa_StopStream(outputStream_); closeStreams().
stop_output ==
    /\ ctl = "stop_output"
    /\ outCb = "idle"
    /\ closeStreams
    /\ callBackend' = (callBackend \/ captureStream_ # NULL \/ outputStream_ # NULL)
    /\ ctl' = "stop_cleanup"
    /\ UNCHANGED <<rvars, wrapperVars, callOp, callRet, flagVars, config_, paInit, rnVars, ringVars,
                   workerVars, cbVars, ub, statusVars, filterVars>>

\* stop() without the two ring resets.
stop_cleanup_KeepsRings ==
    /\ ctl = "stop_cleanup"
    /\ rnnoise_destroy
    /\ paInit' = Pa_Terminate(paInit)
    /\ callBackend' = TRUE
    /\ Return("")
    /\ UNCHANGED <<rvars, wrapperVars, callOp, flagVars, config_, streamVars, ringVars,
                   workerVars, cbVars, ub, statusVars, filterVars>>

\* stop(): rnnoise_.destroy(); both rings reset; Pa_Terminate(); return.
stop_cleanup ==
    /\ ctl = "stop_cleanup"
    /\ rnnoise_destroy
    /\ captureRing_' = NoRing
    /\ outputRing_' = NoRing
    /\ paInit' = Pa_Terminate(paInit)
    /\ callBackend' = TRUE
    /\ Return("")
    /\ UNCHANGED <<rvars, wrapperVars, callOp, flagVars, config_, streamVars, captured, capAccepted, workerVars,
                   cbVars, ub, statusVars, filterVars>>

(* ---- the real-time callbacks ---- *)

\* The samples of the next capture buffer: the device's samples are numbered
\* from 1 in the order it delivers them.
InputBuffer(n) == [ i \in 1 .. n |-> captured + i ]

\* The samples of src the ring takes in: the first WriteCount of them.
Accepted(ring, src) == SubSeq(src, 1, WriteCount(ring, Len(src)))

\* memset(out + read, 0, (frameCount - read) * sizeof(float)) after the read
\* samples: the buffer of frameCount samples the callback leaves.
ZeroFill(data, frameCount) == data \o [ i \in 1 .. frameCount - Len(data) |-> 0 ]

\* A thread is inside Pa_StopStream for the stream: PortAudio invokes its
\* callback no more, and the call returns when the invocation in flight has.
CaptureStopping == worker = "stopCapture" \/ ctl = "stop_capture"

OutputStopping == worker = "stopOutput" \/ ctl = "stop_output"

\* PortAudio invokes captureCallback on the capture stream's thread. xrun:
\* statusFlags has paInputUnderflow or paInputOverflow.
capture_invoke(xrun) ==
    /\ captureStream_ = "active"
    /\ ~CaptureStopping
    /\ capCb = "idle"
    /\ captured < MaxCaptureBuffers * config_.framesPerBuffer
    /\ capCb' = IF xrun THEN "enter_xrun" ELSE "enter"
    /\ UNCHANGED <<rvars, wrapperVars, apiVars, flagVars, config_, paInit, streamVars, rnVars,
                   ringVars, workerVars, outCb, outBuf, statusVars, ub, filterVars>>

\* captureCallback: if (!input || !running_.load()) return paContinue.
capture_enter(hasInput) ==
    /\ capCb \in {"enter", "enter_xrun"}
    /\ capCb' = IF ~hasInput \/ ~running_ THEN "idle"
                ELSE IF capCb = "enter_xrun" THEN "write_xrun" ELSE "write"
    /\ UNCHANGED <<rvars, wrapperVars, apiVars, flagVars, config_, paInit, streamVars, rnVars,
                   ringVars, workerVars, outCb, outBuf, statusVars, ub, filterVars>>

\* captureCallback taking a lock the worker holds while it processes a frame.
capture_write_Locked ==
    /\ capCb \in {"write", "write_xrun"}
    /\ worker # "process"
    /\ captureRing_' =
         RingBuffer_write(captureRing_, InputBuffer(config_.framesPerBuffer)).ring
    /\ captured' = captured + config_.framesPerBuffer
    /\ capAccepted' = capAccepted \o Accepted(captureRing_, InputBuffer(config_.framesPerBuffer))
    /\ shouldRestart_' = (shouldRestart_ \/ capCb = "write_xrun")
    /\ capCb' = "idle"
    /\ UNCHANGED <<rvars, wrapperVars, apiVars, running_, config_, paInit, streamVars, rnVars,
                   outputRing_, workerVars, outCb, outBuf, statusVars, ub, filterVars>>

\* captureCallback writing its whole buffer whatever room the ring has, over
\* samples the worker has not read yet.
capture_write_Overwrites ==
    /\ capCb \in {"write", "write_xrun"}
    /\ captureRing_ # NoRing
    /\ captureRing_' =
         WritePublish(WriteCopy(captureRing_, InputBuffer(config_.framesPerBuffer),
                                config_.framesPerBuffer),
                      config_.framesPerBuffer)
    /\ captured' = captured + config_.framesPerBuffer
    /\ capAccepted' = capAccepted \o InputBuffer(config_.framesPerBuffer)
    /\ shouldRestart_' = (shouldRestart_ \/ capCb = "write_xrun")
    /\ capCb' = "idle"
    /\ UNCHANGED <<rvars, wrapperVars, apiVars, running_, config_, paInit, streamVars, rnVars,
                   outputRing_, workerVars, outCb, outBuf, statusVars, ub, filterVars>>

\* captureCallback: write the buffer to captureRing_, raise shouldRestart_ on
\* an xrun, return.
capture_write ==
    /\ capCb \in {"write", "write_xrun"}
    /\ IF captureRing_ = NoRing
       THEN ub' = TRUE /\ UNCHANGED ringVars
       ELSE /\ captureRing_' =
                 RingBuffer_write(captureRing_, InputBuffer(config_.framesPerBuffer)).ring
            /\ captured' = captured + config_.framesPerBuffer
            /\ capAccepted' =
                 capAccepted \o Accepted(captureRing_, InputBuffer(config_.framesPerBuffer))
            /\ UNCHANGED <<outputRing_, ub>>
    /\ shouldRestart_' = (shouldRestart_ \/ capCb = "write_xrun")
    /\ capCb' = "idle"
    /\ UNCHANGED <<rvars, wrapperVars, apiVars, running_, config_, paInit, streamVars, rnVars,
                   workerVars, outCb, outBuf, statusVars, filterVars>>

\* PortAudio invokes outputCallback on the output stream's thread. xrun:
\* statusFlags has paOutputUnderflow or paOutputOverflow.
output_invoke(xrun) ==
    /\ outputStream_ = "active"
    /\ ~OutputStopping
    /\ outCb = "idle"
    /\ outCb' = IF xrun THEN "enter_xrun" ELSE "enter"
    /\ outBuf' = <<>>
    /\ UNCHANGED <<rvars, wrapperVars, apiVars, flagVars, config_, paInit, streamVars, rnVars,
                   ringVars, workerVars, capCb, statusVars, ub, filterVars>>

\* outputCallback: if (!running_.load()) { memset(out, 0, ...); return paContinue; }
output_enter ==
    /\ outCb \in {"enter", "enter_xrun"}
    /\ outCb' = IF ~running_ THEN "idle"
                ELSE IF outCb = "enter_xrun" THEN "read_xrun" ELSE "read"
    /\ outBuf' = IF ~running_ THEN ZeroFill(<<>>, config_.framesPerBuffer) ELSE outBuf
    /\ UNCHANGED <<rvars, wrapperVars, apiVars, flagVars, config_, paInit, streamVars, rnVars,
                   ringVars, workerVars, capCb, statusVars, ub, filterVars>>

\* outputCallback storing the flag test's value: a buffer without an xrun
\* clears shouldRestart_.
output_read_StoresFlag ==
    /\ outCb \in {"read", "read_xrun"}
    /\ outputRing_' = RingBuffer_read(outputRing_, config_.framesPerBuffer).ring
    /\ outBuf' = ZeroFill(RingBuffer_read(outputRing_, config_.framesPerBuffer).data,
                          config_.framesPerBuffer)
    /\ shouldRestart_' = (outCb = "read_xrun")
    /\ outCb' = "idle"
    /\ UNCHANGED <<rvars, wrapperVars, apiVars, running_, config_, paInit, streamVars, rnVars,
                   captureRing_, captured, capAccepted, workerVars, capCb, statusVars, ub,
                   filterVars>>

\* outputCallback without the memset after a short read: the rest of the
\* buffer is left as PortAudio handed it over.
output_read_NoZeroFill ==
    /\ outCb \in {"read", "read_xrun"}
    /\ outputRing_ # NoRing
    /\ outputRing_' = RingBuffer_read(outputRing_, config_.framesPerBuffer).ring
    /\ outBuf' = RingBuffer_read(outputRing_, config_.framesPerBuffer).data
    /\ shouldRestart_' = (shouldRestart_ \/ outCb = "read_xrun")
    /\ outCb' = "idle"
    /\ UNCHANGED <<rvars, wrapperVars, apiVars, running_, config_, paInit, streamVars, rnVars,
                   captureRing_, captured, capAccepted, workerVars, capCb, statusVars,
                   ub, filterVars>>

\* outputCallback: read frameCount samples from outputRing_, zero-fill the
\* rest, raise shouldRestart_ on an xrun, return.
output_read ==
    /\ outCb \in {"read", "read_xrun"}
    /\ IF outputRing_ = NoRing
       THEN ub' = TRUE /\ UNCHANGED <<ringVars, outBuf>>
       ELSE /\ outputRing_' = RingBuffer_read(outputRing_, config_.framesPerBuffer).ring
            /\ outBuf' =
                 ZeroFill(RingBuffer_read(outputRing_, config_.framesPerBuffer).data,
                          config_.framesPerBuffer)
            /\ UNCHANGED <<captureRing_, captured, capAccepted, ub>>
    /\ shouldRestart_' = (shouldRestart_ \/ outCb = "read_xrun")
    /\ outCb' = "idle"
    /\ UNCHANGED <<rvars, wrapperVars, apiVars, running_, config_, paInit, streamVars, rnVars,
                   workerVars, capCb, statusVars, filterVars>>

(* ---- processingLoop() and attemptRestart() ---- *)

\* processingLoop reading whatever the capture ring holds, a whole frame or not.
loop_top_ReadsAvailable ==
    /\ worker = "loop"
    /\ IF ~running_
       THEN /\ worker' = "exited"
            /\ UNCHANGED <<frame, ringVars, ub>>
       ELSE IF captureRing_ # NoRing /\ available_read(captureRing_) > 0
       THEN /\ frame' = RingBuffer_read(captureRing_, kRNNoiseFrameSize).data
            /\ captureRing_' = RingBuffer_read(captureRing_, kRNNoiseFrameSize).ring
            /\ worker' = "process"
            /\ UNCHANGED <<outputRing_, captured, capAccepted, ub>>
       ELSE /\ worker' = "check"
            /\ UNCHANGED <<frame, ringVars, ub>>
    /\ UNCHANGED <<rvars, wrapperVars, apiVars, flagVars, config_, paInit, streamVars, rnVars,
                   attempt, cbVars, statusVars, filterVars, slept>>

\* while (running_): read a frame when a whole one is available, else sleep.
loop_top ==
    /\ worker = "loop"
    /\ IF ~running_
       THEN /\ worker' = "exited"
            /\ UNCHANGED <<frame, ringVars, ub>>
       ELSE IF captureRing_ = NoRing
       THEN /\ ub' = TRUE
            /\ worker' = "check"
            /\ UNCHANGED <<frame, ringVars>>
       ELSE IF available_read(captureRing_) >= kRNNoiseFrameSize
       THEN /\ frame' = RingBuffer_read(captureRing_, kRNNoiseFrameSize).data
            /\ captureRing_' = RingBuffer_read(captureRing_, kRNNoiseFrameSize).ring
            /\ worker' = "process"
            /\ UNCHANGED <<outputRing_, captured, capAccepted, ub>>
       ELSE /\ worker' = "check"
            /\ UNCHANGED <<frame, ringVars, ub>>
    /\ UNCHANGED <<rvars, wrapperVars, apiVars, flagVars, config_, paInit, streamVars, rnVars,
                   attempt, cbVars, statusVars, filterVars, slept>>

\* rnnoise_.processFrame(frame); outputRing_->write(frame, kRNNoiseFrameSize).
loop_process ==
    /\ worker = "process"
    /\ hpf_' = processFrame(frame, state_, state2_, hpf_, lpf_).hpf
    /\ lpf_' = processFrame(frame, state_, state2_, hpf_, lpf_).lpf
    /\ restarted' = FALSE
    /\ IF outputRing_ = NoRing
       THEN ub' = TRUE /\ UNCHANGED ringVars
       ELSE /\ outputRing_' =
                 RingBuffer_write(outputRing_,
                     processFrame(frame, state_, state2_, hpf_, lpf_).frame).ring
            /\ UNCHANGED <<captureRing_, captured, capAccepted, ub>>
    /\ frame' = <<>>
    /\ worker' = "check"
    /\ UNCHANGED <<rvars, wrapperVars, apiVars, flagVars, config_, paInit, streamVars, rnVars,
                   attempt, cbVars, statusVars, slept>>

\* if (shouldRestart_.load())
loop_check ==
    /\ worker = "check"
    /\ worker' = IF shouldRestart_ THEN "clear" ELSE "loop"
    /\ UNCHANGED <<rvars, wrapperVars, apiVars, flagVars, config_, paInit, streamVars, rnVars,
                   ringVars, attempt, frame, cbVars, ub, statusVars, filterVars, slept>>

\* loop_clear without the statusCallback_ invocation that opens attemptRestart.
loop_clear_Silent ==
    /\ worker = "clear"
    /\ shouldRestart_' = FALSE
    /\ attempt' = 0
    /\ worker' = "backoff"
    /\ UNCHANGED <<rvars, wrapperVars, apiVars, running_, config_, paInit, streamVars, rnVars,
                   ringVars, frame, cbVars, ub, statusVars, filterVars, slept>>

\* The flag cleared without attemptRestart() being called.
loop_clear_NoRestart ==
    /\ worker = "clear"
    /\ shouldRestart_' = FALSE
    /\ worker' = "loop"
    /\ UNCHANGED <<rvars, wrapperVars, apiVars, running_, config_, paInit, streamVars, rnVars,
                   ringVars, attempt, frame, cbVars, ub, statusVars, filterVars, slept>>

\* shouldRestart_.store(false); attemptRestart() is entered: the status
\* callback is told that a restart begins, attempt = 0.
loop_clear ==
    /\ worker = "clear"
    /\ shouldRestart_' = FALSE
    /\ statusCallback("Device issue detected, attempting restart...")
    /\ attempt' = 0
    /\ worker' = "backoff"
    /\ UNCHANGED <<rvars, wrapperVars, apiVars, running_, config_, paInit, streamVars, rnVars,
                   ringVars, frame, cbVars, ub, filterVars, slept>>

\* A backoff that grows by 100 ms per attempt.
BackoffMs_Linear(k) == 100 * (k + 1)

\* std::chrono::milliseconds(100 * (1 << attempt))
BackoffMs(k) == 100 * 2 ^ k

\* attemptRestart() retrying until it succeeds: no cap on the attempts and no
\* look at running_.
restart_backoff_RetryForever ==
    /\ worker = "backoff"
    /\ worker' = "stopCapture"
    /\ attempt' = IF attempt >= kMaxRestartAttempts THEN 0 ELSE attempt
    /\ slept' = BackoffMs(attempt')
    /\ UNCHANGED <<rvars, wrapperVars, apiVars, flagVars, config_, paInit, streamVars, rnVars,
                   ringVars, frame, cbVars, ub, statusVars, filterVars>>

\* attemptRestart() without the running_ check after the sleep.
restart_backoff_IgnoresRunning ==
    /\ worker = "backoff"
    /\ IF attempt >= kMaxRestartAttempts
       THEN /\ statusCallback("Failed to restart audio engine after multiple attempts")
            /\ worker' = "loop"
            /\ attempt' = 0
            /\ slept' = 0
       ELSE /\ worker' = "stopCapture"
            /\ slept' = BackoffMs(attempt)
            /\ UNCHANGED <<attempt, statusVars>>
    /\ UNCHANGED <<rvars, wrapperVars, apiVars, flagVars, config_, paInit, streamVars, rnVars,
                   ringVars, frame, cbVars, ub, filterVars>>

\* attemptRestart() giving the engine up when the attempts are used up: it
\* clears running_ and reports nothing.
restart_backoff_GivesUp ==
    /\ worker = "backoff"
    /\ IF attempt >= kMaxRestartAttempts
       THEN /\ running_' = FALSE
            /\ worker' = "loop"
            /\ attempt' = 0
            /\ slept' = 0
            /\ UNCHANGED statusVars
       ELSE /\ worker' = IF running_ THEN "stopCapture" ELSE "loop"
            /\ slept' = IF running_ THEN BackoffMs(attempt) ELSE 0
            /\ attempt' = IF running_ THEN attempt ELSE 0
            /\ UNCHANGED <<running_, statusVars>>
    /\ UNCHANGED <<rvars, wrapperVars, apiVars, shouldRestart_, config_, paInit, streamVars, rnVars,
                   ringVars, frame, cbVars, ub, filterVars>>

\* attemptRestart(): the loop test, the backoff sleep and the running_ check.
\* With the attempts used up the routine tells the status callback and
\* returns; with running_ cleared after the sleep it just returns.
restart_backoff ==
    /\ worker = "backoff"
    /\ IF attempt >= kMaxRestartAttempts
       THEN /\ statusCallback("Failed to restart audio engine after multiple attempts")
            /\ worker' = "loop"
            /\ attempt' = 0
            /\ slept' = 0
       ELSE /\ worker' = IF running_ THEN "stopCapture" ELSE "loop"
            /\ slept' = IF running_ THEN BackoffMs(attempt) ELSE 0
            /\ attempt' = IF running_ THEN attempt ELSE 0
            /\ UNCHANGED statusVars
    /\ UNCHANGED <<rvars, wrapperVars, apiVars, flagVars, config_, paInit, streamVars, rnVars,
                   ringVars, frame, cbVars, ub, filterVars>>

\* attemptRestart() stopping the capture stream without waiting for its
\* callback (Pa_AbortStream-like).
restart_stopCapture_NoWait ==
    /\ worker = "stopCapture"
    /\ captureStream_' = Pa_StopStream(captureStream_)
    /\ worker' = "stopOutput"
    /\ UNCHANGED <<rvars, wrapperVars, apiVars, flagVars, config_, paInit, outputStream_, rnVars,
                   ringVars, attempt, frame, cbVars, ub, statusVars, filterVars, slept>>

\* attemptRestart(): if (captureStream_) Pa_StopStream(captureStream_).
restart_stopCapture ==
    /\ worker = "stopCapture"
    /\ capCb = "idle"
    /\ captureStream_' = Pa_StopStream(captureStream_)
    /\ worker' = "stopOutput"
    /\ UNCHANGED <<rvars, wrapperVars, apiVars, flagVars, config_, paInit, outputStream_, rnVars,
                   ringVars, attempt, frame, cbVars, ub, statusVars, filterVars, slept>>

\* attemptRestart(): if (outputStream_) Pa_StopStream(outputStream_); closeStreams().
restart_stopOutput ==
    /\ worker = "stopOutput"
    /\ outCb = "idle"
    /\ closeStreams
    /\ worker' = "open"
    /\ UNCHANGED <<rvars, wrapperVars, apiVars, flagVars, config_, paInit, rnVars, ringVars,
                   attempt, frame, cbVars, ub, statusVars, filterVars, slept>>

\* attemptRestart(): openStreams(); on an error, the next attempt.
restart_open ==
    /\ worker = "open"
    /\ \E o \in OpenOutcomes :
         /\ captureStream_' = openStreams_capture(o, captureStream_)
         /\ outputStream_' = openStreams_output(o, outputStream_)
         /\ IF o = "ok"
            THEN worker' = "startCapture" /\ attempt' = attempt
            ELSE worker' = "backoff" /\ attempt' = attempt + 1
    /\ UNCHANGED <<rvars, wrapperVars, apiVars, flagVars, config_, paInit, rnVars, ringVars, frame,
                   cbVars, ub, statusVars, filterVars, slept>>

\* attemptRestart(): Pa_StartStream(captureStream_); on an error closeStreams()
\* and the next attempt.
restart_startCapture ==
    /\ worker = "startCapture"
    /\ \E ok \in BOOLEAN :
         IF ok
         THEN /\ captureStream_' = "active"
              /\ worker' = "startOutput"
              /\ UNCHANGED <<outputStream_, attempt>>
         ELSE /\ closeStreams
              /\ worker' = "backoff"
              /\ attempt' = attempt + 1
    /\ UNCHANGED <<rvars, wrapperVars, apiVars, flagVars, config_, paInit, rnVars, ringVars, frame,
                   cbVars, ub, statusVars, filterVars, slept>>

\* attemptRestart() going to the next attempt with both streams left open when
\* the output stream fails to start.
restart_startOutput_LeavesStreams ==
    /\ worker = "startOutput"
    /\ \E ok \in BOOLEAN :
         IF ok
         THEN /\ outputStream_' = "active"
              /\ statusCallback("Audio engine restarted successfully")
              /\ worker' = "loop"
              /\ attempt' = 0
              /\ slept' = 0
              /\ restarted' = TRUE
              /\ UNCHANGED captureStream_
         ELSE /\ UNCHANGED streamVars
              /\ worker' = "backoff"
              /\ attempt' = attempt + 1
              /\ UNCHANGED <<statusVars, slept, restarted>>
    /\ UNCHANGED <<rvars, wrapperVars, apiVars, flagVars, config_, paInit, rnVars, ringVars, frame,
                   cbVars, ub, hpf_, lpf_>>

\* attemptRestart(): Pa_StartStream(outputStream_); on success the routine
\* returns, on an error it stops the capture stream, closes both and goes on
\* to the next attempt.
restart_startOutput ==
    /\ worker = "startOutput"
    /\ \E ok \in BOOLEAN :
         IF ok
         THEN /\ outputStream_' = "active"
              /\ statusCallback("Audio engine restarted successfully")
              /\ worker' = "loop"
              /\ attempt' = 0
              /\ slept' = 0
              /\ restarted' = TRUE
              /\ UNCHANGED captureStream_
         ELSE /\ capCb = "idle"
              /\ closeStreams
              /\ worker' = "backoff"
              /\ attempt' = attempt + 1
              /\ UNCHANGED <<statusVars, slept, restarted>>
    /\ UNCHANGED <<rvars, wrapperVars, apiVars, flagVars, config_, paInit, rnVars, ringVars, frame,
                   cbVars, ub, hpf_, lpf_>>

(* ---- the engine's specification ---- *)

Init == AudioEngineInit /\ RingInit /\ RNNoiseWrapperInit

Next ==
    \/ \E cfg \in Configs : start_AlreadyRunning(cfg)
    \/ \E cfg \in Configs : start_init(cfg)
    \/ start_alloc
    \/ start_open
    \/ start_capture
    \/ start_output
    \/ start_run
    \/ start_spawn
    \/ setStatusCallback
    \/ stop_NotRunning
    \/ stop_signal
    \/ stop_join
    \/ stop_capture
    \/ stop_output
    \/ stop_cleanup
    \/ \E xrun \in BOOLEAN : capture_invoke(xrun)
    \/ \E hasInput \in BOOLEAN : capture_enter(hasInput)
    \/ capture_write
    \/ \E xrun \in BOOLEAN : output_invoke(xrun)
    \/ output_enter
    \/ output_read
    \/ loop_top
    \/ loop_process
    \/ loop_check
    \/ loop_clear
    \/ restart_backoff
    \/ restart_stopCapture
    \/ restart_stopOutput
    \/ restart_open
    \/ restart_startCapture
    \/ restart_startOutput

vars == <<evars, rvars, wrapperVars>>

Spec == Init /\ [][Next]_vars

(* ---- enumerateDevices (SpecEnum) ---- *)

\* enumerateDevices(): Pa_Initialize; on an error the empty list is returned.
enumerateDevices_init(ok) ==
    /\ ctl = "idle"
    /\ callOp' = "enumerateDevices"
    /\ callBackend' = TRUE
    /\ IF ok
       THEN /\ paInit' = paInit + 1
            /\ ctl' = "enumerate"
            /\ callRet' = "(pending)"
       ELSE /\ paInit' = paInit
            /\ Return("no devices")
    /\ UNCHANGED <<rvars, wrapperVars, flagVars, config_, streamVars, rnVars, ringVars, workerVars,
                   cbVars, ub, statusVars, filterVars>>

\* enumerateDevices() returning the list without Pa_Terminate.
enumerateDevices_return_NoTerminate ==
    /\ ctl = "enumerate"
    /\ Return("devices")
    /\ UNCHANGED <<rvars, wrapperVars, callOp, callBackend, flagVars, config_, paInit, streamVars,
                   rnVars, ringVars, workerVars, cbVars, ub, statusVars, filterVars>>

\* enumerateDevices(): the devices are listed, Pa_Terminate, return.
enumerateDevices_return ==
    /\ ctl = "enumerate"
    /\ paInit' = Pa_Terminate(paInit)
    /\ Return("devices")
    /\ UNCHANGED <<rvars, wrapperVars, callOp, callBackend, flagVars, config_, streamVars, rnVars,
                   ringVars, workerVars, cbVars, ub, statusVars, filterVars>>

\* The engine with the static enumerateDevices() called from the control thread.
NextEnum ==
    \/ Next
    \/ \E ok \in BOOLEAN : enumerateDevices_init(ok)
    \/ enumerateDevices_return

SpecEnum == Init /\ [][NextEnum]_vars

(* ---- SpecRing: the producer's write() and the consumer's read() ---- *)

\* write(src, n), step 1. The producer offers the next n samples.
write_observe(n) ==
    /\ pPc = "idle"
    /\ offered + n <= MaxOffered
    /\ pSrc' = [ i \in 1 .. n |-> offered + i ]
    /\ offered' = offered + n
    /\ pObs' = rb.readIdx
    /\ pCount' = WriteCount(rb, n)
    /\ pPc' = "copy"
    /\ UNCHANGED <<evars, wrapperVars, rb, cPc, cReq, cObs, cCount, cData, accepted, delivered>>

\* write(src, n), step 2.
write_copy ==
    /\ pPc = "copy"
    /\ rb' = WriteCopy(rb, pSrc, pCount)
    /\ pPc' = "publish"
    /\ UNCHANGED <<evars, wrapperVars, pSrc, pObs, pCount, cPc, cReq, cObs, cCount, cData,
                   offered, accepted, delivered>>

\* write(src, n), step 3, and return of pCount.
write_publish ==
    /\ pPc = "publish"
    /\ rb' = WritePublish(rb, pCount)
    /\ accepted' = accepted \o SubSeq(pSrc, 1, pCount)
    /\ pPc' = "idle"
    /\ UNCHANGED <<evars, wrapperVars, pSrc, pObs, pCount, cPc, cReq, cObs, cCount, cData,
                   offered, delivered>>

\* read(dst, n), step 1.
read_observe(n) ==
    /\ cPc = "idle"
    /\ cReq' = n
    /\ cObs' = rb.writeIdx
    /\ cCount' = ReadCount(rb, n)
    /\ cPc' = "copy"
    /\ UNCHANGED <<evars, wrapperVars, rb, pPc, pSrc, pObs, pCount, cData, offered, accepted,
                   delivered>>

\* read(dst, n), step 2.
read_copy ==
    /\ cPc = "copy"
    /\ cData' = ReadCopy(rb, cCount)
    /\ cPc' = "publish"
    /\ UNCHANGED <<evars, wrapperVars, rb, pPc, pSrc, pObs, pCount, cReq, cObs, cCount,
                   offered, accepted, delivered>>

\* read(dst, n), step 3, and return of cCount.
read_publish ==
    /\ cPc = "publish"
    /\ rb' = ReadPublish(rb, cCount)
    /\ delivered' = delivered \o cData
    /\ cPc' = "idle"
    /\ UNCHANGED <<evars, wrapperVars, pPc, pSrc, pObs, pCount, cReq, cObs, cCount, cData,
                   offered, accepted>>

NextRing ==
    \/ \E n \in 0 .. MaxRequest : write_observe(n)
    \/ write_copy
    \/ write_publish
    \/ \E n \in 0 .. MaxRequest : read_observe(n)
    \/ read_copy
    \/ read_publish

SpecRing == Init /\ [][NextRing]_vars

(* ---- SpecRn: the calls made on one RNNoiseWrapper ---- *)

NextRn ==
    \/ \E c1, c2 \in BOOLEAN : RNNoiseWrapper_init(c1, c2)
    \/ RNNoiseWrapper_destroy
    \/ \E f \in MicFrames, att1, att2 \in RnAttenuations, vad1, vad2 \in VadValues :
         RNNoiseWrapper_processFrame(f, att1, att2, vad1, vad2)
    \/ \E level \in LevelArgs : setSuppressionLevel(level)
    \/ \E threshold \in ThresholdArgs : setVadThreshold(threshold)
    \/ \E enabled \in BOOLEAN : setComfortNoise(enabled)

SpecRn == Init /\ [][NextRn]_vars

(* ---- SpecAddon: the wrapper with its setters called from JavaScript ---- *)

NextAddon ==
    \/ NextRn
    \/ \E info \in JsArgs : SetNoiseLevel(info)
    \/ \E info \in JsArgs : SetVadThreshold(info)

SpecAddon == Init /\ [][NextAddon]_vars

(* ---- SpecGate: the gate of one RNNoiseWrapper, frame after frame ---- *)

NextGate ==
    \/ \E c1, c2 \in BOOLEAN : RNNoiseWrapper_init(c1, c2)
    \/ \E vad \in GateVads, postRms \in GateRms : gate_frame(vad, postRms)

SpecGate == Init /\ [][NextGate]_vars

(* ---- FairSpec: the scheduler lets every thread that can run, run ---- *)

WorkerNext ==
    \/ loop_top
    \/ loop_process
    \/ loop_check
    \/ loop_clear
    \/ restart_backoff
    \/ restart_stopCapture
    \/ restart_stopOutput
    \/ restart_open
    \/ restart_startCapture
    \/ restart_startOutput

\* A capture callback invocation in flight runs to its return.
CaptureNext == (\E hasInput \in BOOLEAN : capture_enter(hasInput)) \/ capture_write

\* An output callback invocation in flight runs to its return.
OutputNext == output_enter \/ output_read

FairSpec ==
    /\ Spec
    /\ WF_vars(WorkerNext)
    /\ WF_vars(CaptureNext)
    /\ WF_vars(OutputNext)
    /\ WF_vars(stop_join)

(* ============================== claims ================================= *)

(* ---- the ring (SpecRing) ---- *)

\* C1: for a ring with one producer and one consumer running concurrently,
\* the samples successive reads return are exactly the samples successive
\* writes accepted, in order, each once; an overflowing write accepts only a
\* prefix of its source and every unread sample stays intact in the buffer.
C1_RingIsFifo ==
    /\ Len(accepted) = rb.writeIdx
    /\ Len(delivered) = rb.readIdx
    /\ Len(delivered) <= Len(accepted)
    /\ delivered = SubSeq(accepted, 1, Len(delivered))
    /\ \A i, j \in 1 .. Len(accepted) : i < j => accepted[i] < accepted[j]
    /\ \A k \in rb.readIdx .. rb.writeIdx - 1 : rb.buf[Mask(rb, k)] = accepted[k + 1]
    /\ cPc = "publish" => cData = SubSeq(accepted, rb.readIdx + 1, rb.readIdx + cCount)

\* C1 witness: an overflowing write dropped samples, the indices have wrapped
\* and the consumer has been handed a sample accepted after the drop.
C1_Witness ==
    /\ Len(delivered) > rb.capacity
    /\ delivered[Len(delivered)] > Len(delivered)

\* C2: in every state of a ring of capacity N, a power of two, under any
\* interleaving of the producer's and the consumer's steps:
\* 0 <= write_index - read_index <= N, readable = write_index - read_index,
\* and readable + writable = N.
C2_RingIndexInvariant ==
    /\ rb.capacity = NextPow2(kRingCapacity)
    /\ \E k \in 0 .. kRingCapacity : rb.capacity = 2 ^ k
    /\ 0 <= rb.writeIdx - rb.readIdx
    /\ rb.writeIdx - rb.readIdx <= rb.capacity
    /\ available_read(rb) = rb.writeIdx - rb.readIdx
    /\ available_read(rb) + available_write(rb) = rb.capacity
    /\ available_read(rb) >= 0
    /\ available_write(rb) >= 0

\* C2 witness: the ring is full after its indices have wrapped.
C2_Witness ==
    /\ rb.writeIdx - rb.readIdx = rb.capacity
    /\ rb.readIdx > 0
    /\ rb.writeIdx > rb.capacity

\* The write index and the read index a call in progress or just returned
\* started from.
WriteStart == IF pPc = "idle" THEN rb.writeIdx - pCount ELSE rb.writeIdx

ReadStart == IF cPc = "idle" THEN rb.readIdx - cCount ELSE rb.readIdx

\* C3: write(src, n) stores and returns exactly min(n, writable) samples and
\* read(dst, n) returns exactly min(n, readable) samples, writable and
\* readable being what the call observed: a write into a full ring returns 0,
\* a read from an empty ring returns 0, a write of more than the free space
\* returns the free space.
C3_ExactCounts ==
    /\ pCount = Min(Len(pSrc), rb.capacity - (WriteStart - pObs))
    /\ cCount = Min(cReq, cObs - ReadStart)
    /\ (WriteStart - pObs = rb.capacity) => pCount = 0
    /\ (cObs = ReadStart) => cCount = 0
    /\ (Len(pSrc) > rb.capacity - (WriteStart - pObs))
          => pCount = rb.capacity - (WriteStart - pObs)
    /\ pPc = "idle" =>
          /\ Len(accepted) >= pCount
          /\ SubSeq(accepted, Len(accepted) - pCount + 1, Len(accepted))
                = SubSeq(pSrc, 1, pCount)
    /\ cPc \in {"idle", "publish"} => Len(cData) = cCount

\* C3 witness: a write returned part of what it was offered and a read
\* returned part of what it asked for.
C3_Witness ==
    /\ pPc = "idle"
    /\ 0 < pCount
    /\ pCount < Len(pSrc)
    /\ cPc = "idle"
    /\ 0 < cCount
    /\ cCount < cReq

(* ---- the engine (Spec, FairSpec) ---- *)

RingsAllocated == captureRing_ # NoRing /\ outputRing_ # NoRing

DenoiserLive == state_ /\ state2_

StreamsClosed == captureStream_ = NULL /\ outputStream_ = NULL

WorkerAlive == worker \notin {"none", "exited"}

\* What start() builds: the engine is Running.
EngineRunning ==
    /\ running_
    /\ RingsAllocated
    /\ DenoiserLive
    /\ captureStream_ = "active"
    /\ outputStream_ = "active"
    /\ WorkerAlive

\* Everything but the record of the control calls.
engineState == <<flagVars, config_, paInit, streamVars, rnVars, ringVars,
                 workerVars, cbVars, statusVars, filterVars, ub>>

\* A step in which a ring is released or a denoiser handle destroyed.
ReleaseStep ==
    \/ captureRing_ # NoRing /\ captureRing_' = NoRing
    \/ outputRing_ # NoRing /\ outputRing_' = NoRing
    \/ state_ /\ ~state_'
    \/ state2_ /\ ~state2_'

\* C4: the rings are released and the denoiser destroyed only once the
\* worker thread has exited and been joined and both streams are stopped and
\* closed, with no callback in flight; no callback invocation and no worker
\* step ever touches a released ring or a destroyed denoiser.
C4_TeardownOrder ==
    /\ [][ReleaseStep =>
            /\ worker' = "none"
            /\ captureStream_' = NULL
            /\ outputStream_' = NULL
            /\ capCb = "idle"
            /\ outCb = "idle"]_vars
    /\ [](/\ ~ub
          /\ WorkerAlive => RingsAllocated /\ DenoiserLive
          /\ capCb # "idle" => captureRing_ # NoRing
          /\ outCb # "idle" => outputRing_ # NoRing)

\* C4 witness: stop() is waiting for the worker while the worker holds a frame
\* and both callbacks are in flight on the rings.
C4_Witness ==
    /\ ctl = "stop_join"
    /\ worker = "process"
    /\ capCb # "idle"
    /\ outCb # "idle"

\* A step in which a start() call returns.
StartReturns ==
    /\ ctl' = "idle"
    /\ callOp' = "start"
    /\ ctl # "idle" \/ apiVars' # apiVars

\* No step sets running_ before both streams have been started.
RunningOnlyAfterStreams ==
    (~running_ /\ running_') => (captureStream_' = "active" /\ outputStream_' = "active")

\* C5 as stated: start returns "" if and only if the engine ends Running;
\* running_ never becomes true before both streams are started, and it is
\* false whenever start returns an error.
C5_StartEmptyIffRunning ==
    /\ [][StartReturns =>
            /\ (callRet' = "") <=> EngineRunning'
            /\ (callRet' # "") => ~running_']_vars
    /\ [][RunningOnlyAfterStreams]_vars

\* C5 amended: a start() made while the engine is not running returns "" if
\* and only if the engine ends Running, and running_ is false whenever it
\* returns an error; a start() made while the engine is running returns
\* "Engine already running" and leaves running_ true; running_ never becomes
\* true before both streams are started.
C5_StartOnStoppedEmptyIffRunning ==
    /\ [][StartReturns =>
            IF running_ /\ ctl = "idle"
            THEN callRet' = "Engine already running" /\ running_'
            ELSE /\ (callRet' = "") <=> EngineRunning'
                 /\ (callRet' # "") => ~running_']_vars
    /\ [][RunningOnlyAfterStreams]_vars

\* C5 witness: start() has returned "" and the engine is Running.
C5_Witness ==
    /\ ctl = "idle"
    /\ callOp = "start"
    /\ callRet = ""
    /\ EngineRunning

\* start() has returned an error other than "Engine already running".
StartFailed ==
    /\ ctl = "idle"
    /\ callOp = "start"
    /\ callRet \notin {"", "Engine already running"}

\* C6: when start fails at any step it returns an error and leaves nothing
\* behind: no stream open, no denoiser handle live, no ring allocated, no
\* worker, the backend terminated and the engine not running.
C6_FailedStartUnwinds ==
    StartFailed =>
        /\ StreamsClosed
        /\ ~state_
        /\ ~state2_
        /\ captureRing_ = NoRing
        /\ outputRing_ = NoRing
        /\ worker = "none"
        /\ paInit = 0
        /\ ~running_

\* C7: start() on a running engine returns "Engine already running" and
\* changes nothing: config, rings, streams, denoiser, flags and worker are as
\* they were and the engine stays running.
C7_StartWhileRunningChangesNothing ==
    [][(ctl = "idle" /\ running_ /\ callOp' = "start" /\ apiVars' # apiVars) =>
          /\ ctl' = "idle"
          /\ callRet' = "Engine already running"
          /\ callBackend' = FALSE
          /\ running_'
          /\ UNCHANGED engineState]_vars

\* C7 witness: start() was refused while the worker held a frame, a capture
\* callback was in flight and the stored config named the mute output.
C7_Witness ==
    /\ ctl = "idle"
    /\ callRet = "Engine already running"
    /\ running_
    /\ worker = "process"
    /\ capCb # "idle"
    /\ config_.outputDeviceIndex = -2

\* C8: stop() on an engine that is not running makes no backend call, joins
\* nothing and changes no engine state.
C8_StopIdempotent ==
    [][(ctl = "idle" /\ ~running_ /\ callOp' = "stop" /\ apiVars' # apiVars) =>
          /\ ctl' = "idle"
          /\ callBackend' = FALSE
          /\ UNCHANGED engineState]_vars

\* C8 witness: an engine that ran and captured audio has been stopped, and a
\* further stop() has returned without a backend call.
C8_Witness ==
    /\ ctl = "idle"
    /\ callOp = "stop"
    /\ ~callBackend
    /\ captured > 0
    /\ captureRing_ = NoRing

\* stop() has torn a running engine down and returned.
StopReturned ==
    /\ ctl = "idle"
    /\ callOp = "stop"
    /\ callBackend

\* C9: after stop() returns from a running engine nothing start() created is
\* live: running_ is false, the worker is joined, both stream handles and both
\* denoiser handles are null and both rings are released.
C9_NothingLiveAfterStop ==
    StopReturned =>
        /\ ~running_
        /\ worker = "none"
        /\ StreamsClosed
        /\ ~state_
        /\ ~state2_
        /\ captureRing_ = NoRing
        /\ outputRing_ = NoRing
        /\ capCb = "idle"
        /\ outCb = "idle"

\* C9 witness: stop() has returned from an engine that captured audio and on
\* which an xrun had raised the restart flag.
C9_Witness ==
    /\ StopReturned
    /\ captured > 0
    /\ shouldRestart_

\* C10: under fair scheduling, once stop() has cleared running_ and waits in
\* join(), the worker leaves its loop and the join returns, wherever the
\* worker was.
C10_StopTerminates == (ctl = "stop_join") ~> (ctl = "stop_capture" /\ worker = "none")

\* C10 witness: stop() waits in join() while the worker is inside a restart
\* attempt after earlier attempts failed.
C10_Witness ==
    /\ ctl = "stop_join"
    /\ worker \in {"stopCapture", "stopOutput", "open", "startCapture", "startOutput"}
    /\ attempt > 0

(* ---- the threads and the restart routine ---- *)

\* The worker's places inside attemptRestart(), and those inside an attempt.
RestartPcs == {"backoff", "stopCapture", "stopOutput", "open", "startCapture", "startOutput"}

AttemptPcs == RestartPcs \ {"backoff"}

CaptureInFlight == capCb # "idle"

OutputInFlight == outCb # "idle"

\* Steps of the four threads.
ControlStep == ctl' # ctl \/ callOp' # callOp \/ statusCallback_' # statusCallback_

WorkerStep == worker' # worker

CaptureReturns == CaptureInFlight /\ capCb' = "idle"

OutputReturns == OutputInFlight /\ outCb' = "idle"

\* What a step does to a ring: to its producer side, to its consumer side.
Produced(r) == r'.writeIdx # r.writeIdx \/ r'.buf # r.buf

Consumed(r) == r'.readIdx # r.readIdx

\* C11: SPSC roles hold at every moment, restarts included. A callback
\* invocation is in flight only while its own stream is the started one, so
\* no invocation of a stopped or closed stream is left to overlap one of the
\* re-opened stream; the capture ring is produced only by a returning capture
\* callback and consumed only by the worker's frame read; the output ring is
\* produced only by the worker's frame write and consumed only by a returning
\* output callback; the control thread replaces a ring only with no worker
\* and no callback in flight.
C11_SpscRoles ==
    /\ [](CaptureInFlight => captureStream_ = "active")
    /\ [](OutputInFlight => outputStream_ = "active")
    /\ [][/\ captureRing_' # captureRing_ =>
               \/ /\ ControlStep
                  /\ worker \in {"none", "exited"}
                  /\ ~CaptureInFlight
               \/ /\ capCb \in {"write", "write_xrun"}
                  /\ CaptureReturns
                  /\ ~Consumed(captureRing_)
                  /\ UNCHANGED <<ctl, worker, outCb>>
               \/ /\ worker = "loop"
                  /\ worker' = "process"
                  /\ ~Produced(captureRing_)
                  /\ UNCHANGED <<ctl, capCb, outCb>>
          /\ outputRing_' # outputRing_ =>
               \/ /\ ControlStep
                  /\ worker \in {"none", "exited"}
                  /\ ~OutputInFlight
               \/ /\ worker = "process"
                  /\ worker' = "check"
                  /\ ~Consumed(outputRing_)
                  /\ UNCHANGED <<ctl, capCb, outCb>>
               \/ /\ outCb \in {"read", "read_xrun"}
                  /\ OutputReturns
                  /\ ~Produced(outputRing_)
                  /\ UNCHANGED <<ctl, worker, capCb>>]_vars

\* C11 witness: after a successful restart, callbacks of both re-opened
\* streams are in flight while the worker processes a frame.
C11_Witness ==
    /\ statusMsg = "Audio engine restarted successfully"
    /\ capCb \in {"write", "write_xrun"}
    /\ outCb \in {"read", "read_xrun"}
    /\ worker = "process"

\* The control thread is at a place of start() or stop() whose next step
\* initialises or destroys the denoiser.
ControlAtDenoiser ==
    ctl \in {"start_alloc", "start_open", "start_capture", "start_output", "stop_cleanup"}

\* C12: the denoiser handles and the filter state are never touched by two
\* threads at once. While the control thread is where it initialises or
\* destroys them no worker exists (not yet spawned, or joined); every step
\* that changes them is such a control step, or the worker's processFrame
\* with the control thread elsewhere; no callback ever changes them.
C12_DenoiserSingleThread ==
    /\ [](ControlAtDenoiser => worker = "none")
    /\ [](worker = "process" => ~ControlAtDenoiser)
    /\ [][<<state_, state2_, hpf_, lpf_>>' # <<state_, state2_, hpf_, lpf_>> =>
            \/ /\ ControlAtDenoiser
               /\ ControlStep
               /\ worker = "none"
               /\ worker' = "none"
            \/ /\ worker = "process"
               /\ worker' = "check"
               /\ UNCHANGED <<ctl, state_, state2_, capCb, outCb>>]_vars

\* C12 witness: the worker is about to run processFrame on live handles with
\* filter state an earlier frame left, while a control call is in progress.
C12_Witness ==
    /\ worker = "process"
    /\ DenoiserLive
    /\ hpf_ # BiquadState_reset
    /\ ctl = "stop_join"

\* C13: the callbacks are wait-free. An invocation in flight can always take
\* its next step, whatever the control thread and the worker are doing, and
\* its steps touch nothing but its own ring side, shouldRestart_ and its own
\* place.
C13_CallbacksWaitFree ==
    /\ [](capCb \in {"enter", "enter_xrun"} =>
            ENABLED (\E hasInput \in BOOLEAN : capture_enter(hasInput)))
    /\ [](capCb \in {"write", "write_xrun"} => ENABLED capture_write)
    /\ [](outCb \in {"enter", "enter_xrun"} => ENABLED output_enter)
    /\ [](outCb \in {"read", "read_xrun"} => ENABLED output_read)
    /\ [][/\ capCb' # capCb =>
               UNCHANGED <<apiVars, running_, config_, paInit, streamVars, rnVars,
                           outputRing_, workerVars, outCb, statusVars, filterVars, ub>>
          /\ outCb' # outCb =>
               UNCHANGED <<apiVars, running_, config_, paInit, streamVars, rnVars,
                           captureRing_, workerVars, capCb, statusVars, filterVars, ub>>]_vars

\* C13 witness: both callbacks are in flight while stop() waits in its join
\* and the worker, inside a restart attempt, waits in Pa_StopStream.
C13_Witness ==
    /\ capCb \in {"write", "write_xrun"}
    /\ outCb \in {"read", "read_xrun"}
    /\ ctl = "stop_join"
    /\ worker = "stopCapture"

\* C14: the restart routine runs on the worker only. A callback step never
\* lowers shouldRestart_ and moves neither a stream nor the worker; the flag
\* is lowered only by the worker where it enters the routine, so it is down
\* when the routine starts; outside start() and stop() a stream changes only
\* in a worker step inside a restart attempt.
C14_RestartOnlyOnWorker ==
    [][/\ (capCb' # capCb \/ outCb' # outCb) =>
            /\ shouldRestart_ => shouldRestart_'
            /\ UNCHANGED <<streamVars, workerVars>>
       /\ (shouldRestart_ /\ ~shouldRestart_') =>
            /\ worker = "clear"
            /\ worker' = "backoff"
            /\ UNCHANGED <<ctl, capCb, outCb>>
       /\ (worker' \in RestartPcs /\ worker \notin RestartPcs) =>
            /\ worker = "clear"
            /\ ~shouldRestart_'
       /\ (streamVars' # streamVars /\ ~ControlStep) =>
            /\ worker \in AttemptPcs
            /\ WorkerStep
            /\ UNCHANGED <<capCb, outCb>>]_vars

\* C14 witness: the worker is inside a restart attempt, the streams closed,
\* and a callback of the old stream had raised the flag again before it was
\* stopped.
C14_Witness ==
    /\ worker = "open"
    /\ StreamsClosed
    /\ shouldRestart_
    /\ ctl = "idle"

\* C15: a callback invoked with an xrun status flag leaves shouldRestart_
\* true when it returns.
C15_XrunRaisesFlag ==
    [][/\ (capCb \in {"enter_xrun", "write_xrun"} /\ capCb' = "idle") => shouldRestart_'
       /\ (outCb \in {"enter_xrun", "read_xrun"} /\ outCb' = "idle") => shouldRestart_']_vars

\* The backoff waits the restart routine is to take, in milliseconds.
BackoffTable == <<100, 200, 400, 800, 1600>>

\* C16: one call of the restart routine makes at most 5 attempts; attempt k
\* runs after a backoff of 100 * 2^k ms; an attempt stops and closes both
\* streams before it re-opens them and starts them only once both are open;
\* the routine returns at the first attempt that started both, and returns
\* once 5 attempts have failed.
C16_BoundedBackoff ==
    /\ [](worker \in RestartPcs => attempt \in 0 .. kMaxRestartAttempts)
    /\ [](worker \in AttemptPcs =>
            /\ attempt < kMaxRestartAttempts
            /\ Len(BackoffTable) = kMaxRestartAttempts
            /\ slept = BackoffTable[attempt + 1])
    /\ [](worker = "open" => StreamsClosed)
    /\ [](worker = "startCapture" => captureStream_ = "open" /\ outputStream_ = "open")
    /\ [](worker = "startOutput" => captureStream_ = "active" /\ outputStream_ = "open")
    /\ [][/\ (worker = "startOutput" /\ outputStream_' = "active") => worker' = "loop"
          /\ (worker \in AttemptPcs /\ worker' = "backoff") => attempt' = attempt + 1
          /\ (worker \in RestartPcs /\ worker' \in RestartPcs) => attempt' >= attempt
          /\ (worker = "backoff" /\ attempt = kMaxRestartAttempts /\ WorkerStep) =>
               /\ worker' = "loop"
               /\ UNCHANGED streamVars]_vars

\* C16 witness: the fifth attempt, after four failures, has re-opened both
\* streams and started the capture stream.
C16_Witness ==
    /\ worker = "startOutput"
    /\ attempt = 4
    /\ slept = 1600

\* C17: when running_ is found cleared after a backoff wait the routine
\* returns at once: no stream is stopped, closed, opened or started, nothing
\* is reported, and the worker goes on to leave its loop.
C17_AbortWhenStopped ==
    [][/\ (worker = "backoff" /\ attempt < kMaxRestartAttempts /\ ~running_ /\ WorkerStep) =>
            /\ worker' = "loop"
            /\ UNCHANGED <<streamVars, statusVars, flagVars, paInit>>
       /\ (worker = "loop" /\ ~running_ /\ WorkerStep) => worker' = "exited"]_vars

\* C17 witness: the worker has left its loop out of a restart that had begun
\* and neither succeeded nor used up its attempts, and the streams it left
\* are still there for stop().
C17_Witness ==
    /\ worker = "exited"
    /\ statusMsg = "Device issue detected, attempting restart..."
    /\ ctl = "stop_join"
    /\ captureStream_ = "active"
    /\ outputStream_ = "active"

\* The step in which the restart routine returns with its attempts used up.
ExhaustedStep == worker = "backoff" /\ attempt = kMaxRestartAttempts /\ WorkerStep

\* C18: when all 5 attempts have failed the engine stays Running: the step
\* leaves running_ as it is, returns the worker to its loop, gives no caller
\* an error and tells the status callback, if one is set, of the failure;
\* running_ is only ever changed by start() and stop(); and a stop() after
\* the failure leaves nothing behind.
C18_ExhaustionStaysRunning ==
    /\ [][/\ ExhaustedStep =>
               /\ running_' = running_
               /\ worker' = "loop"
               /\ UNCHANGED apiVars
               /\ StreamsClosed'
               /\ statusCallback_ =>
                    statusMsg' = "Failed to restart audio engine after multiple attempts"
          /\ running_' # running_ => ControlStep /\ ~WorkerStep]_vars
    /\ []((/\ StopReturned
           /\ statusMsg = "Failed to restart audio engine after multiple attempts") =>
             /\ StreamsClosed
             /\ ~state_ /\ ~state2_
             /\ captureRing_ = NoRing /\ outputRing_ = NoRing
             /\ worker = "none"
             /\ paInit = 0
             /\ ~running_)

\* C18 witness: the attempts are used up, the status callback was told, and
\* the engine is Running with its worker back in the loop and no stream.
C18_Witness ==
    /\ statusMsg = "Failed to restart audio engine after multiple attempts"
    /\ running_
    /\ worker = "loop"
    /\ StreamsClosed
    /\ ctl = "idle"

\* The steps in which the restart routine begins and in which it succeeds.
RestartBeginsStep == worker = "clear" /\ worker' = "backoff"

RestartSucceedsStep == worker = "startOutput" /\ worker' = "loop"

\* C19 as stated: the status callback is invoked for nothing but the final
\* failure of the restart attempts.
C19_OnlyExhaustionSurfaced ==
    [][statusMsg' # statusMsg =>
         /\ ExhaustedStep
         /\ statusMsg' = "Failed to restart audio engine after multiple attempts"]_vars

\* C19, amended: the status callback, when set, is invoked when a restart
\* begins, when an attempt succeeds and when the attempts are used up, each
\* with its own message, and at no other step; a restart that aborts because
\* running_ was cleared reports nothing more.
C19_StatusAtBeginSuccessExhaustion ==
    [][/\ statusMsg' # statusMsg =>
            \/ /\ RestartBeginsStep
               /\ statusMsg' = "Device issue detected, attempting restart..."
            \/ /\ RestartSucceedsStep
               /\ statusMsg' = "Audio engine restarted successfully"
            \/ /\ ExhaustedStep
               /\ statusMsg' = "Failed to restart audio engine after multiple attempts"
       /\ (statusCallback_ /\ RestartBeginsStep) =>
            statusMsg' = "Device issue detected, attempting restart..."
       /\ (statusCallback_ /\ RestartSucceedsStep) =>
            statusMsg' = "Audio engine restarted successfully"
       /\ (statusCallback_ /\ ExhaustedStep) =>
            statusMsg' = "Failed to restart audio engine after multiple attempts"
       /\ ~statusCallback_ => statusMsg' = statusMsg]_vars

\* C19 witness: a restart has succeeded with a status callback set, and the
\* callback's latest message says so.
C19_Witness ==
    /\ statusCallback_
    /\ statusMsg = "Audio engine restarted successfully"
    /\ running_
    /\ captureStream_ = "active"
    /\ outputStream_ = "active"

\* C20: the first frame processed after a successful auto-restart finds the
\* four delay cells of both biquads at zero.
C20_FiltersResetAfterRestart ==
    (worker = "process" /\ restarted /\ DenoiserLive) =>
        /\ hpf_ = BiquadState_reset
        /\ lpf_ = BiquadState_reset

(* ---- the audio path: what the callbacks and the worker move ---- *)

\* A buffer of n zero samples.
Silence(n) == [ i \in 1 .. n |-> 0 ]

\* The step in which an output callback invocation returns having read the
\* ring, and the one in which it returns having seen running_ false.
OutputReadStep == outCb \in {"read", "read_xrun"} /\ OutputReturns

OutputIdleStep == outCb \in {"enter", "enter_xrun"} /\ OutputReturns

\* C21: with outputDeviceIndex = -2 (mute) every output callback invocation
\* returns an all-zero buffer, whatever the output ring holds.
C21_MuteZeroesOutput ==
    [][(OutputReturns /\ config_.outputDeviceIndex = -2) =>
          outBuf' = Silence(config_.framesPerBuffer)]_vars

\* C22: every output callback invocation defines its whole buffer. One that
\* found running_ true returns the next r = min(frameCount, readable) samples
\* of the output ring, in order, followed by frameCount - r zeros, and has
\* consumed exactly those r; one that found running_ false returns zeros and
\* leaves the output ring as it was.
C22_OutputBufferDefined ==
    [][/\ OutputReturns => Len(outBuf') = config_.framesPerBuffer
       /\ OutputReadStep =>
            LET r == Min(config_.framesPerBuffer, available_read(outputRing_))
            IN  /\ \A k \in 1 .. config_.framesPerBuffer :
                     outBuf'[k] = IF k <= r
                                  THEN outputRing_.buf[Mask(outputRing_,
                                                            outputRing_.readIdx + k - 1)]
                                  ELSE 0
                /\ outputRing_'.readIdx = outputRing_.readIdx + r
                /\ ~Produced(outputRing_)
       /\ OutputIdleStep =>
            /\ ~running_
            /\ outBuf' = Silence(config_.framesPerBuffer)
            /\ outputRing_' = outputRing_
       /\ (outCb \in {"enter", "enter_xrun"} /\ running_ /\ outCb' # outCb) =>
            outCb' \in {"read", "read_xrun"}]_vars

\* C22 witness: an invocation has returned a buffer that starts with samples
\* of the ring and ends in zero fill, after a read shorter than the buffer.
C22_Witness ==
    /\ outCb = "idle"
    /\ running_
    /\ Len(outBuf) = config_.framesPerBuffer
    /\ outBuf[1] # 0
    /\ outBuf[Len(outBuf)] = 0
    /\ outputRing_ # NoRing
    /\ outputRing_.readIdx % config_.framesPerBuffer # 0

\* The step in which a capture callback invocation returns having written.
CaptureWriteStep == capCb \in {"write", "write_xrun"} /\ CaptureReturns

\* C23: a capture callback invocation that found running_ true offers its
\* whole buffer to the capture ring: the first w = min(frameCount, writable)
\* samples are appended in order, the others are dropped, nothing the worker
\* has still to read is overwritten, and the step never waits; one that found
\* running_ false (or a null input) returns with the ring untouched.
C23_CaptureWritesWhatFits ==
    /\ [][/\ CaptureWriteStep =>
               LET src == InputBuffer(config_.framesPerBuffer)
                   w   == Min(config_.framesPerBuffer, available_write(captureRing_))
               IN  /\ captureRing_'.writeIdx = captureRing_.writeIdx + w
                   /\ \A k \in 1 .. w :
                        captureRing_'.buf[Mask(captureRing_, captureRing_.writeIdx + k - 1)]
                          = src[k]
                   /\ \A k \in captureRing_.readIdx .. captureRing_.writeIdx - 1 :
                        captureRing_'.buf[Mask(captureRing_, k)]
                          = captureRing_.buf[Mask(captureRing_, k)]
                   /\ ~Consumed(captureRing_)
                   /\ capAccepted' = capAccepted \o SubSeq(src, 1, w)
                   /\ captured' = captured + config_.framesPerBuffer
          /\ (capCb \in {"enter", "enter_xrun"} /\ capCb' # capCb) =>
               /\ UNCHANGED ringVars
               /\ ~running_ => capCb' = "idle"]_vars
    /\ [](capCb \in {"write", "write_xrun"} => ENABLED capture_write)

\* C23 witness: the ring took part of a buffer and dropped the rest.
C23_Witness ==
    /\ capCb = "idle"
    /\ captured = 2 * config_.framesPerBuffer
    /\ Len(capAccepted) > config_.framesPerBuffer
    /\ Len(capAccepted) < captured

\* C24: the worker takes the capture ring's samples in whole frames only. It
\* reads only with kRNNoiseFrameSize samples readable, a read removes exactly
\* that many, and the frame handed to processFrame is the next
\* kRNNoiseFrameSize samples the ring had taken in, in order; with fewer
\* readable the worker leaves the ring alone.
C24_WholeFramesConsumed ==
    /\ [][/\ (Consumed(captureRing_) /\ ~ControlStep) =>
               /\ worker = "loop"
               /\ worker' = "process"
               /\ available_read(captureRing_) >= kRNNoiseFrameSize
               /\ captureRing_'.readIdx = captureRing_.readIdx + kRNNoiseFrameSize
               /\ frame' = SubSeq(capAccepted, captureRing_.readIdx + 1,
                                  captureRing_.readIdx + kRNNoiseFrameSize)
          /\ (/\ worker = "loop"
              /\ WorkerStep
              /\ captureRing_ # NoRing
              /\ available_read(captureRing_) < kRNNoiseFrameSize) =>
               /\ captureRing_' = captureRing_
               /\ worker' \in {"check", "exited"}]_vars
    /\ [](worker = "process" =>
            /\ Len(frame) = kRNNoiseFrameSize
            /\ frame = SubSeq(capAccepted, captureRing_.readIdx - kRNNoiseFrameSize + 1,
                              captureRing_.readIdx))

\* C24 witness: the worker holds the first frame while the capture callback
\* is about to write the next buffer.
C24_Witness ==
    /\ worker = "process"
    /\ captureRing_.readIdx = kRNNoiseFrameSize
    /\ capCb \in {"write", "write_xrun"}
    /\ Len(capAccepted) = kRNNoiseFrameSize

\* C25: every frame the worker processes goes to the output ring whole: the
\* write after processFrame appends kRNNoiseFrameSize samples.
C25_WholeFramesProduced ==
    [][(worker = "process" /\ worker' = "check" /\ outputRing_ # NoRing) =>
          outputRing_'.writeIdx = outputRing_.writeIdx + kRNNoiseFrameSize]_vars

(* ---- the frame processor (SpecRn) ---- *)

\* A step that is a processFrame call, and one made on live handles.
ProcessFrameStep == pfSinceInit' = pfSinceInit + 1

LiveCall == ProcessFrameStep /\ state_ /\ state2_

\* C26: bypass fidelity. A processFrame call that finds suppressionLevel_ at 0
\* leaves the frame as it was given, publishes the same value as input and
\* output RMS, publishes VAD 0 and gate gain 1 and returns 0, whatever the
\* gate's own gain is.
C26_BypassFidelity ==
    [][(LiveCall /\ suppressionLevel_ <= 0) =>
          /\ Len(pfIn') = kRNNoiseFrameSize
          /\ pfOut' = pfIn'
          /\ metrics_'.inputRms = computeRms(pfIn')
          /\ metrics_'.outputRms = metrics_'.inputRms
          /\ metrics_'.vadProbability = 0
          /\ metrics_'.currentGain = One
          /\ pfRet' = 0]_vars

\* C26 witness: a bypass call has returned while the gate's own gain is below
\* 1 from an earlier full-path frame.
C26_Witness ==
    /\ DenoiserLive
    /\ suppressionLevel_ = 0
    /\ pfSinceInit = 2
    /\ metrics_.framesProcessed = 2
    /\ smoothGain_ < One
    /\ metrics_.currentGain = One
    /\ pfOut = pfIn
    /\ pfIn \in MicFrames

\* C27: frames_processed goes up by exactly one on every processFrame call on
\* live handles, bypass or full path, changes in no other step except init(),
\* which alone lowers it (to 0); so while the handles are live it is the
\* number of processFrame calls since init().
C27_FramesProcessedCounts ==
    /\ [][/\ LiveCall => metrics_'.framesProcessed = metrics_.framesProcessed + 1
          /\ metrics_'.framesProcessed < metrics_.framesProcessed =>
               /\ metrics_'.framesProcessed = 0
               /\ pfSinceInit' = 0
               /\ ~ProcessFrameStep
          /\ metrics_'.framesProcessed > metrics_.framesProcessed => LiveCall]_vars
    /\ [](DenoiserLive => metrics_.framesProcessed = pfSinceInit)

\* C27 witness: two frames are counted, one taken on the full path and the
\* latest on the bypass path.
C27_Witness ==
    /\ DenoiserLive
    /\ metrics_.framesProcessed = 2
    /\ qualified
    /\ suppressionLevel_ = 0
    /\ metrics_.currentGain = One
    /\ smoothGain_ < One

\* C28: the gate gain published to the metrics lies in [0, 1] in every state.
C28_GateGainInUnitRange ==
    /\ metrics_.currentGain >= 0
    /\ metrics_.currentGain <= One

\* C28 witness: a gain strictly inside the range is published, the gate
\* having been driven down with level and threshold changed from their defaults.
C28_Witness ==
    /\ metrics_.currentGain > 0
    /\ metrics_.currentGain < One
    /\ metrics_.framesProcessed = 2
    /\ vadThreshold_ # kDefaultVadThreshold
    /\ suppressionLevel_ # One

\* C29: once a full-path frame with vad < vadThreshold_ / 2 has been processed
\* since init(), the published noise floor is at least kAbsoluteMinFloor;
\* until then it is 0.
C29_NoiseFloorLowerBound ==
    IF qualified THEN metrics_.noiseFloor >= kAbsoluteMinFloor
    ELSE metrics_.noiseFloor = 0

\* C29 witness: a noise frame whose post-filter RMS is below the minimum has
\* been processed after calibration, and the floor published is the minimum.
C29_Witness ==
    /\ qualified
    /\ pfSinceInit = 2
    /\ calibrationFrames_ = kCalibrationPeriod
    /\ pfPostRms < kAbsoluteMinFloor
    /\ metrics_.noiseFloor = kAbsoluteMinFloor

\* C30: with live handles and no frame processed since init(), the wrapper
\* is in its reset state: frames_processed 0, gain 1, hold 0, noise floor 0,
\* calibration count 0, the comfort-noise generator at its seed, all filter
\* delay cells 0.
C30_StartFromReset ==
    (DenoiserLive /\ pfSinceInit = 0) =>
        /\ metrics_ = MetricsReset
        /\ smoothGain_ = One
        /\ holdCounter_ = 0
        /\ noiseFloorEstimate_ = 0
        /\ calibrationFrames_ = 0
        /\ noiseState_ = ToBits(kNoiseSeed)
        /\ prevNoise_ = 0
        /\ hpf_ = BiquadState_reset
        /\ lpf_ = BiquadState_reset

\* C30 witness: init() has succeeded on a wrapper that had processed frames,
\* with parameters changed from their defaults, and no frame has followed.
C30_Witness ==
    /\ DenoiserLive
    /\ pfSinceInit = 0
    /\ reinitialised
    /\ suppressionLevel_ # One

(* ---- the gate (SpecGate) ---- *)

\* A step that is a full-path frame.
GateStep == metrics_'.framesProcessed = metrics_.framesProcessed + 1 /\ suppressionLevel_ > 0

\* C31: after a speech frame the gate target is 1 on each of the next 15
\* frames without speech and below 1 on the 16th; a speech frame sets the hold
\* back to 15; and a published gain that was 1 stays 1 through the hold and
\* drops on the 16th frame.
C31_HoldFifteenFrames ==
    /\ [](sinceSpeech \in 0 .. kHoldFrames =>
            /\ pfTarget = One
            /\ holdCounter_ = kHoldFrames - sinceSpeech)
    /\ [](sinceSpeech = kHoldFrames + 1 => pfTarget < One /\ holdCounter_ = 0)
    /\ [][GateStep =>
            /\ (smoothGain_ = One /\ sinceSpeech' \in 0 .. kHoldFrames) =>
                  metrics_'.currentGain = One
            /\ (smoothGain_ = One /\ sinceSpeech = kHoldFrames /\ sinceSpeech' = kHoldFrames + 1) =>
                  metrics_'.currentGain < One]_vars

\* C31 witness: the 16th frame without speech has just closed a gate that was
\* fully open through the hold.
C31_Witness ==
    /\ sinceSpeech = kHoldFrames + 1
    /\ metrics_.framesProcessed = kHoldFrames + 2
    /\ pfTarget = 0
    /\ metrics_.currentGain = One - kGateCloseCoeff

(* ---- the control parameters (SpecAddon) ---- *)

\* C32: after any setNoiseLevel and setVadThreshold calls the stored
\* suppression level and VAD threshold lie in [0, 1].
C32_ParametersInUnitRange ==
    /\ Le(0, suppressionLevel_) /\ Le(suppressionLevel_, One)
    /\ Le(0, vadThreshold_) /\ Le(vadThreshold_, One)

(* ---- the gate target (SpecRn) ---- *)

\* A processFrame call that takes the full path.
FullPathStep == LiveCall /\ suppressionLevel_ > 0

\* C33: the gate target of a full-path frame is 1 exactly when speech is
\* detected in the frame or the hold counter was positive before it;
\* otherwise it is 0 below the gate threshold and the clamped ratio, at most
\* 0.5, from the threshold on; the threshold is 1.5 times the noise floor as
\* updated by this frame when that exceeds 0.0003, and 0.002 otherwise.
C33_GateTargetFormula ==
    [][FullPathStep =>
         LET vad        == metrics_'.vadProbability
             post_rms   == pfPostRms'
             gate_thresh == IF noiseFloorEstimate_' > kAbsoluteMinFloor
                            THEN (noiseFloorEstimate_' * 15) \div 10
                            ELSE kFallbackThreshold
             speech     == \/ vad >= vadThreshold_
                           \/ /\ vad >= vadThreshold_ - kVadHysteresis
                              /\ post_rms > 2 * gate_thresh
             ratio      == ((post_rms - gate_thresh) * One) \div
                               (IF gate_thresh < 1 THEN 1 ELSE gate_thresh)
         IN  /\ pfTarget' = One <=> (speech \/ holdCounter_ > 0)
             /\ ~(speech \/ holdCounter_ > 0) =>
                  /\ pfTarget' <= One \div 2
                  /\ pfTarget' = IF post_rms < gate_thresh THEN 0
                                 ELSE IF ratio < 0 THEN 0
                                 ELSE IF ratio > One \div 2 THEN One \div 2
                                 ELSE ratio]_vars

\* C33 witness: a frame without speech or hold whose energy is above the gate
\* threshold has been given the partial target.
C33_Witness ==
    /\ DenoiserLive
    /\ pfSinceInit > 0
    /\ sinceSpeech # 0
    /\ holdCounter_ = 0
    /\ pfTarget > 0
    /\ pfTarget < One
    /\ pfPostRms >= kFallbackThreshold

(* ---- the opening of the gate (SpecGate) ---- *)

\* C34 as stated: from a closed gate, with speech detected in every frame,
\* the published gain is at least 0.9 after 14 frames.
C34_OpenAfterFourteen ==
    openRun >= 14 => metrics_.currentGain >= 9 * (One \div 10)

\* C34, amended: from a closed gate, with speech detected in every frame, the
\* published gain is below 0.9 after 14 frames and at least 0.9 after 15; it
\* grows with every one of these frames, never falls afterwards while speech
\* lasts and never exceeds 1.
C34_OpenAfterFifteen ==
    /\ [](openRun >= 15 => metrics_.currentGain >= 9 * (One \div 10))
    /\ [](openRun \in 1 .. 14 => metrics_.currentGain < 9 * (One \div 10))
    /\ [][(GateStep /\ openRun' > 0) =>
            /\ metrics_'.currentGain >= smoothGain_
            /\ openRun' <= 15 => metrics_'.currentGain > smoothGain_
            /\ metrics_'.currentGain <= One]_vars

\* C34 witness: the 15th speech frame after a closed gate has brought the
\* gain to 0.9 or more.
C34_Witness ==
    /\ openRun = 15
    /\ metrics_.currentGain >= 9 * (One \div 10)
    /\ metrics_.currentGain < One
    /\ pfTarget = One

(* ---- the bypass path and the gate (SpecRn) ---- *)

\* C35: a processFrame call on the bypass path leaves smoothGain_, the hold
\* counter, the noise floor estimate, the calibration count, both filters'
\* delay cells and the comfort-noise generator as they were, and does not
\* publish the noise floor again.
C35_BypassLeavesGate ==
    [][(LiveCall /\ suppressionLevel_ <= 0) =>
          /\ smoothGain_' = smoothGain_
          /\ holdCounter_' = holdCounter_
          /\ noiseFloorEstimate_' = noiseFloorEstimate_
          /\ calibrationFrames_' = calibrationFrames_
          /\ hpf_' = hpf_
          /\ lpf_' = lpf_
          /\ noiseState_' = noiseState_
          /\ prevNoise_' = prevNoise_
          /\ metrics_'.noiseFloor = metrics_.noiseFloor]_vars

\* C35 witness: after a noise frame that closed the gate by one step and
\* learned a floor, a bypass frame has published gain 1 while the gate's own
\* gain, the floor and the calibration count are still those of the noise frame.
C35_Witness ==
    /\ DenoiserLive
    /\ suppressionLevel_ = 0
    /\ metrics_.framesProcessed = 2
    /\ metrics_.currentGain = One
    /\ metrics_.vadProbability = 0
    /\ smoothGain_ = One - kGateCloseCoeff
    /\ qualified
    /\ calibrationFrames_ = 1
    /\ noiseFloorEstimate_ >= kAbsoluteMinFloor
    /\ metrics_.noiseFloor = noiseFloorEstimate_
    /\ hpf_ # BiquadState_reset

(* ---- the control parameters over init() and destroy() (SpecRn) ---- *)

\* C40: init(), destroy() and processFrame leave suppressionLevel_,
\* vadThreshold_ and comfortNoiseEnabled_ as they are, and the first frame
\* after init() is processed with the stored values: bypassed when the level
\* is 0, gated against the stored threshold otherwise, and without comfort
\* noise when that is disabled.
C40_ParametersSurviveLifecycle ==
    [][/\ (rnVars' # rnVars \/ metrics_' # metrics_ \/ callVars' # callVars) =>
             paramVars' = paramVars
       /\ (LiveCall /\ pfSinceInit = 0 /\ suppressionLevel_ <= 0) =>
             /\ pfOut' = pfIn'
             /\ metrics_'.currentGain = One
             /\ smoothGain_' = smoothGain_
       /\ (LiveCall /\ pfSinceInit = 0 /\ suppressionLevel_ > 0) =>
             /\ pfTarget' = One <=>
                   SpeechDetected(noiseFloorEstimate_', metrics_'.vadProbability,
                                  pfPostRms', vadThreshold_)
             /\ ~comfortNoiseEnabled_ => noiseState_' = noiseState_]_vars

\* C40 witness: a wrapper that had processed frames was initialised again
\* with level 0, a changed threshold and comfort noise off, and its first
\* frame took the bypass path.
C40_Witness ==
    /\ DenoiserLive
    /\ reinitialised
    /\ pfSinceInit = 1
    /\ metrics_.framesProcessed = 1
    /\ suppressionLevel_ = 0
    /\ vadThreshold_ # kDefaultVadThreshold
    /\ ~comfortNoiseEnabled_
    /\ pfOut = pfIn
    /\ metrics_.currentGain = One

(* ---- the restart flag (FairSpec, Spec) ---- *)

\* C36: a raised restart flag is not lost. While the engine runs with its
\* worker, a true shouldRestart_ leads to the flag being cleared unless
\* running_ is cleared first, and the only step that clears the flag is the
\* worker's, which enters the restart routine in the same step; this holds
\* wherever the worker is when the flag is raised, inside the restart routine
\* and between its load and its clear of the flag included.
C36_RestartFlagNotLost ==
    /\ (shouldRestart_ /\ running_ /\ WorkerAlive) ~> (~shouldRestart_ \/ ~running_)
    /\ [][(shouldRestart_ /\ ~shouldRestart_') =>
             (worker = "clear" /\ worker' = "backoff" /\ attempt' = 0)]_vars

\* C36 witness: the flag was raised while the worker was inside a restart
\* routine that then succeeded, and the worker has entered the routine again.
C36_Witness ==
    /\ running_
    /\ worker = "backoff"
    /\ attempt = 0
    /\ ~shouldRestart_
    /\ restarted
    /\ capCb = "idle"
    /\ outCb = "idle"

\* C37: once the restart routine has used up its attempts and shouldRestart_
\* is false, both stream handles are null, no callback runs, the flag stays
\* false and the worker stays out of the restart routine for as long as
\* running_ is true; the streams stay closed until a later start().
C37_ExhaustionIsFinal ==
    /\ [](exhausted => StreamsClosed /\ capCb = "idle" /\ outCb = "idle")
    /\ []((exhausted /\ ~shouldRestart_ /\ running_) => worker \in {"loop", "process", "check"})
    /\ [][(exhausted /\ ~shouldRestart_ /\ running_) =>
             /\ ~shouldRestart_'
             /\ exhausted'
             /\ worker' \notin RestartPcs \cup {"clear"}]_vars
    /\ [][(exhausted /\ ~exhausted') =>
             \/ worker = "clear" /\ shouldRestart_
             \/ ctl = "start_alloc" /\ ~running_]_vars

\* C37 witness: after the attempts were used up the worker has gone round its
\* loop again with the flag false and the streams closed.
C37_Witness ==
    /\ exhausted
    /\ ~shouldRestart_
    /\ running_
    /\ worker = "check"
    /\ StreamsClosed
    /\ ctl = "idle"

(* ---- the stream handles (Spec) ---- *)

\* C38: whenever neither start(), stop() nor the restart routine is in the
\* middle of executing, the two stream handles are both null or both non-null.
C38_StreamsPaired ==
    (ctl = "idle" /\ worker \notin RestartPcs) =>
        (captureStream_ = NULL <=> outputStream_ = NULL)

\* C38 witness: a start() has returned its error after the output stream
\* failed to open, and both handles are null.
C38_Witness ==
    /\ ctl = "idle"
    /\ callOp = "start"
    /\ callRet = "Failed to open output stream"
    /\ StreamsClosed
    /\ ~running_

(* ---- the backend's initialisation count (SpecEnum) ---- *)

\* C39: Pa_Initialize and Pa_Terminate are balanced over start() (successful
\* or failing at any step), stop() and enumerateDevices(): between control
\* calls the count of initialisations minus terminations is 1 while running_
\* and 0 while not, and enumerateDevices() holds exactly one initialisation of
\* its own while it lists the devices and gives it back when it returns.
C39_BackendBalanced ==
    /\ ctl = "idle" => paInit = (IF running_ THEN 1 ELSE 0)
    /\ ctl = "enumerate" => paInit = (IF running_ THEN 2 ELSE 1)

\* C39 witness: enumerateDevices() has returned the list while the engine runs
\* and the count is 1.
C39_Witness ==
    /\ ctl = "idle"
    /\ callOp = "enumerateDevices"
    /\ callRet = "devices"
    /\ running_
    /\ WorkerAlive
    /\ paInit = 1

====
